---- MODULE Spec2Model ----
(***************************************************************************)
(* Model of the PTCG review-sentiment comparison engine:                   *)
(*   - SentimentAnalyzer.analyze_text / analyze_dataframe (thread pool),   *)
(*   - DataAnalyzer.analyze_sentiment_trend / compare_time_periods,        *)
(*   - the /api/comparison request pipeline (compare_periods) and the     *)
(*     other endpoints (period-analysis, data-status, date-range),        *)
(*   - direct calls of analyze_text / analyze_row,                         *)
(*   - DataAnalyzer.analyze_review_volume / analyze_sentiment_distribution.*)
(* Scores are integers in hundredths (0.15 is 15, 0.5 is 50); means and    *)
(* deltas are compared exactly by cross-multiplication.                    *)
(***************************************************************************)
EXTENDS Integers, Sequences, FiniteSets, TLC

VARIABLES
    mode,        \* which entry point this behaviour exercises
    \* ---- SentimentAnalyzer.analyze_dataframe ----
    use_transformers, \* strategy fixed at construction
    neutral_threshold, \* the analyzer's threshold, fixed at construction
    df,          \* the input frame: sequence of rows [id, title, content]
    pc,          \* position of the calling thread in analyze_dataframe
    executor,    \* "none" | "open" | "shutdown"
    submitted,   \* number of rows already submitted (iterrows position)
    queue,       \* executor work queue (FIFO of row ids)
    future,      \* id -> [state, kind, value, fail]
    results,     \* list of <<index, result>> in completion order
    result_df,   \* id -> attached sentiment (or NoSentiment)
    ret,         \* what analyze_dataframe returned: the attached sentiment
                 \* (rows) and the cells of the other columns (fields)
    analyzed,    \* ids for which analyze_text was invoked
    \* ---- DataAnalyzer.compare_time_periods ----
    df1,         \* first period's frame [rows, columns, date_dtype]
    df2,         \* second period's frame
    comparison,  \* results of the successive compare_time_periods calls
    \* ---- POST /api/comparison ----
    processed_data, \* what DataProcessor.load_data yields from the CSV file
    response,    \* the answer to the latest request
    \* ---- DataProcessor ----
    raw_data,    \* the file as read_csv returned it, before cleaning
    log,         \* the calls made so far (of a request handler: during the
                 \* request in progress), oldest first
    \* ---- direct calls of SentimentAnalyzer and DataAnalyzer operations ----
    call         \* the call in progress: operation, argument, result

batchVars == <<use_transformers, neutral_threshold, df, pc, executor, submitted, queue, future,
               results, result_df, ret, analyzed>>

compareVars == <<df1, df2, comparison>>

apiVars == <<processed_data, response, raw_data, log>>

vars == <<mode, call, batchVars, compareVars, apiVars>>

----------------------------------------------------------------------------
(* Bounds *)
MaxRows == 3
NumWorkers == 2
MaxGroups == 2
MaxCalls == 2

(* Program constants *)
NeutralThreshold == 15
SentinelScore == 50
ModelMaxChars == 512

----------------------------------------------------------------------------
(* Generic helpers *)
Min(a, b) == IF a < b THEN a ELSE b

Range(s) == {s[i] : i \in 1..Len(s)}

----------------------------------------------------------------------------
(* Texts are sequences of tokens; a cell is a text or NaN. *)
Tokens == {"love", "hate", "nice", "poor", "okay", ".", " "}

(* Python values: a text, float('nan'), None, an integer *)
NaN == [type |-> "float", na |-> TRUE, s |-> <<>>]

Str(s) == [type |-> "str", na |-> FALSE, s |-> s]

None == [type |-> "NoneType", na |-> TRUE, s |-> <<>>]

Number(n) == [type |-> "int", na |-> FALSE, s |-> <<>>, n |-> n]

(* bool(value), which `not value` negates *)
bool(value) ==
    CASE value.type = "str" -> value.s # <<>>
      [] value.type = "NoneType" -> FALSE
      [] value.type = "int" -> value.n # 0
      [] OTHER -> TRUE

isinstance_str(value) == value.type = "str"

notna(cell) == ~cell.na

RECURSIVE lstrip(_)
lstrip(s) == IF s # <<>> /\ Head(s) = " " THEN lstrip(Tail(s)) ELSE s

RECURSIVE rstrip(_)
rstrip(s) ==
    IF s # <<>> /\ s[Len(s)] = " " THEN rstrip(SubSeq(s, 1, Len(s) - 1)) ELSE s

strip(s) == rstrip(lstrip(s))

(* The lexicon's valence of one token (hundredths). *)
Valence(tok) ==
    CASE tok = "love" -> 80
      [] tok = "hate" -> -80
      [] tok = "nice" -> 15
      [] tok = "poor" -> -15
      [] OTHER -> 0

RECURSIVE SumValence(_)
SumValence(s) == IF s = <<>> THEN 0 ELSE Valence(Head(s)) + SumValence(Tail(s))

(* analyzer.polarity_scores(text)['compound'], clamped to [-1, 1]. *)
polarity_scores(text) ==
    LET v == SumValence(text)
    IN  IF v > 100 THEN 100 ELSE IF v < -100 THEN -100 ELSE v

(* The pretrained pipeline's answer for a (truncated) text. *)
pipeline(text) ==
    IF SumValence(text) >= 0
    THEN [label |-> "POSITIVE", score |-> 90]
    ELSE [label |-> "NEGATIVE", score |-> 95]

(* Mutant: the model's label is passed on as the model wrote it. *)
lower_unchanged(label) == label

(* str.lower on the label vocabulary of the pretrained model *)
lower(label) ==
    CASE label = "POSITIVE" -> "positive"
      [] label = "NEGATIVE" -> "negative"
      [] label = "NEUTRAL" -> "neutral"
      [] OTHER -> label

Sentinel == [label |-> "neutral", score |-> SentinelScore]

(* Mutant: the guard lets every value that is not empty through. *)
passes_guard_truthy(text) == bool(text)

(* Mutant: the guard lets every text through, the empty one included. *)
passes_guard_any_text(text) == isinstance_str(text)

(* the negation of `not text or not isinstance(text, str)` *)
passes_guard(text) == bool(text) /\ isinstance_str(text)

(* Mutant: the label bounds are exclusive. *)
vader_label_exclusive(compound, threshold) ==
    IF compound > threshold THEN "positive"
    ELSE IF compound < -threshold THEN "negative"
    ELSE "neutral"

(* the lexicon strategy's label of a compound score *)
vader_label(compound, threshold) ==
    IF compound >= threshold THEN "positive"
    ELSE IF compound <= -threshold THEN "negative"
    ELSE "neutral"

(* analyze_text; raises is TRUE when the underlying analyzer call throws. *)
analyze_text(text, transformers, threshold, raises) ==
    IF ~passes_guard(text)
    THEN Sentinel
    ELSE IF raises
    THEN Sentinel
    ELSE IF transformers
    THEN LET result == pipeline(SubSeq(text.s, 1, Min(Len(text.s), ModelMaxChars)))
         IN  [label |-> lower(result.label), score |-> result.score]
    ELSE [label |-> vader_label(polarity_scores(text.s), threshold),
          score |-> polarity_scores(text.s)]

(* Mutant: the title is followed by the separator only when content follows. *)
combined_text_trimmed(row) ==
    IF notna(row.title) /\ notna(row.content)
    THEN row.title.s \o <<".", " ">> \o row.content.s
    ELSE IF notna(row.title) THEN row.title.s
    ELSE IF notna(row.content) THEN row.content.s
    ELSE <<>>

(* The text unit analyze_row builds for a row. *)
combined_text(row) ==
    (IF notna(row.title) THEN row.title.s \o <<".", " ">> ELSE <<>>)
        \o (IF notna(row.content) THEN row.content.s ELSE <<>>)

(* TRUE when analyze_row hands the text to analyze_text. *)
InvokesClassifier(row) == strip(combined_text(row)) # <<>>

analyze_row(row, transformers, threshold, raises) ==
    IF ~InvokesClassifier(row)
    THEN Sentinel
    ELSE analyze_text(Str(combined_text(row)), transformers, threshold, raises)

----------------------------------------------------------------------------
(* Frames handed to analyze_dataframe *)
RowKinds ==
    { [title |-> Str(<<"okay">>), content |-> Str(<<"love">>)],
      [title |-> NaN,             content |-> Str(<<"hate">>)],
      [title |-> NaN,             content |-> NaN] }

(* Row labels as a date filter leaves them: increasing, not contiguous, so  *)
(* that a label never coincides with a position.                           *)
IndexLabel(p) == 2 * p + 1

RECURSIVE SeqsUpTo(_, _)
SeqsUpTo(S, n) ==
    IF n = 0 THEN {<<>>}
    ELSE LET shorter == SeqsUpTo(S, n - 1)
         IN  shorter \cup {Append(s, x) : s \in {t \in shorter : Len(t) = n - 1}, x \in S}

Frames ==
    { [p \in 1..Len(ks) |-> [id |-> IndexLabel(p),
                             title |-> ks[p].title,
                             content |-> ks[p].content]] :
        ks \in SeqsUpTo(RowKinds, MaxRows) }

Ids(frame) == {frame[p].id : p \in 1..Len(frame)}

RowOf(frame, id) == frame[CHOOSE p \in 1..Len(frame) : frame[p].id = id]

NoSentiment == [label |-> "nan", score |-> 0]

(* a frame of records for the statistics and comparison operations: rows   *)
(* are groups of `count` identical records                                  *)
Columns == {"Date", "Rating", "Version", "sentiment_label", "sentiment_score"}

NoFrame == [rows |-> <<>>, columns |-> {}, date_dtype |-> "datetime64"]

NoResponse == [status |-> "none"]

NoCall == [operation |-> "none"]

NoFuture == [state |-> "pending", kind |-> "none", value |-> NoSentiment, fail |-> "none"]

NotReturned == [kind |-> "none", same |-> FALSE, rows |-> <<>>, fields |-> <<>>]

Running == {id \in DOMAIN future : future[id].state = "running"}

Finished == {id \in DOMAIN future : future[id].state = "done"}

Yielded == {results[i][1] : i \in 1..Len(results)}

(* result_df.at[index, ...] = result, for every (index, result) collected *)
at_set(frame, index, result) ==
    [id \in DOMAIN frame \cup {index} |-> IF id = index THEN result ELSE frame[id]]

(* Mutant: the copy has its missing titles filled with empty texts. *)
copy_filling_titles(frame) ==
    [p \in DOMAIN frame |-> [frame[p] EXCEPT !.title = IF notna(@) THEN @ ELSE Str(<<>>)]]

(* df.copy(): a new frame with the cells of df; the at[] assignments that   *)
(* follow write the two sentiment columns of the copy only                  *)
copy(frame) == [p \in DOMAIN frame |-> frame[p]]

RECURSIVE integrate(_, _)
integrate(frame, rs) ==
    IF rs = <<>> THEN frame
    ELSE integrate(at_set(frame, Head(rs)[1], Head(rs)[2]), Tail(rs))

----------------------------------------------------------------------------
(* analyze_dataframe *)
InitBatch ==
    /\ mode = "batch"
    /\ call = NoCall
    /\ use_transformers \in BOOLEAN
    /\ neutral_threshold = NeutralThreshold
    /\ df \in Frames
    /\ pc = "start"
    /\ executor = "none"
    /\ submitted = 0
    /\ queue = <<>>
    /\ future = <<>>
    /\ results = <<>>
    /\ result_df = <<>>
    /\ ret = NotReturned
    /\ analyzed = {}
    /\ df1 = NoFrame /\ df2 = NoFrame /\ comparison = <<>>
    /\ processed_data = NoFrame /\ raw_data = NoFrame /\ log = <<>> /\ response = NoResponse

(* if df.empty: return df *)
ReturnEmpty ==
    /\ pc = "start"
    /\ df = <<>>
    /\ ret' = [kind |-> "returned", same |-> TRUE, rows |-> <<>>, fields |-> df]
    /\ pc' = "returned"
    /\ UNCHANGED <<apiVars, compareVars, mode, call, use_transformers,
                 neutral_threshold, df, executor, submitted, queue, future,
                   results, result_df, analyzed>>

(* Mutant: the pool is opened without the df.empty check. *)
OpenPoolUnguarded ==
    /\ pc = "start"
    /\ result_df' = [id \in Ids(df) |-> NoSentiment]
    /\ results' = <<>>
    /\ executor' = "open"
    /\ pc' = "submit"
    /\ UNCHANGED <<apiVars, compareVars, mode, call, use_transformers,
                 neutral_threshold, df, submitted, queue, future, ret, analyzed>>

(* result_df = df.copy(); results = []; with ThreadPoolExecutor(...) *)
OpenPool ==
    /\ pc = "start"
    /\ df # <<>>
    /\ result_df' = [id \in Ids(df) |-> NoSentiment]
    /\ results' = <<>>
    /\ executor' = "open"
    /\ pc' = "submit"
    /\ UNCHANGED <<apiVars, compareVars, mode, call, use_transformers,
                 neutral_threshold, df, submitted, queue, future, ret, analyzed>>

(* executor.submit(analyze_row, row) for the next row of df.iterrows() *)
Submit ==
    /\ pc = "submit"
    /\ submitted < Len(df)
    /\ LET id == df[submitted + 1].id
       IN  /\ future' = [i \in DOMAIN future \cup {id} |->
                            IF i = id THEN NoFuture ELSE future[i]]
           /\ queue' = Append(queue, id)
    /\ submitted' = submitted + 1
    /\ pc' = IF submitted + 1 = Len(df) THEN "collect" ELSE "submit"
    /\ UNCHANGED <<apiVars, compareVars, mode, call, use_transformers,
                 neutral_threshold, df, executor, results, result_df, ret, analyzed>>

(* an idle pool thread takes the oldest queued work item *)
WorkerStart ==
    /\ executor = "open"
    /\ queue # <<>>
    /\ Cardinality(Running) < NumWorkers
    /\ future' = [future EXCEPT ![Head(queue)].state = "running"]
    /\ queue' = Tail(queue)
    /\ UNCHANGED <<apiVars, compareVars, mode, call, use_transformers,
                 neutral_threshold, df, pc, executor, submitted, results,
                   result_df, ret, analyzed>>

(* what a work item leaves in its future *)
RunUnit(row, transformers, fail) ==
    IF fail = "unit"
    THEN [state |-> "done", kind |-> "exception", value |-> NoSentiment, fail |-> fail]
    ELSE [state |-> "done", kind |-> "result",
          value |-> analyze_row(row, transformers, neutral_threshold, fail = "analyzer"), fail |-> fail]

(* a pool thread finishes analyze_row(row): normally, with the analyzer      *)
(* throwing inside analyze_text, or with the work item itself throwing       *)
WorkerFinish ==
    \E id \in Running, fail \in {"none", "analyzer", "unit"} :
        /\ fail = "analyzer" => InvokesClassifier(RowOf(df, id))
        /\ future' = [future EXCEPT ![id] = RunUnit(RowOf(df, id), use_transformers, fail)]
        /\ analyzed' = IF fail # "unit" /\ InvokesClassifier(RowOf(df, id))
                       THEN analyzed \cup {id} ELSE analyzed
        /\ UNCHANGED <<apiVars, compareVars, mode, call, use_transformers,
                 neutral_threshold, df, pc, executor, submitted, queue,
                       results, result_df, ret>>

(* Mutant: the result is paired with the row at the completion position. *)
CollectedByCompletionOrder(index, fut) ==
    <<df[Len(results) + 1].id, IF fut.kind = "exception" THEN Sentinel ELSE fut.value>>

(* Mutant: a failed work item leaves its row without a result. *)
CollectedNoSentinel(index, fut) ==
    IF fut.kind = "exception" THEN <<index, NoSentiment>> ELSE <<index, fut.value>>

(* the entry appended to results for a completed future *)
Collected(index, fut) ==
    IF fut.kind = "exception" THEN <<index, Sentinel>> ELSE <<index, fut.value>>

(* one iteration of: for i, future in enumerate(as_completed(future_to_index)) *)
Collect ==
    \E id \in Finished \ Yielded :
        /\ pc = "collect"
        /\ results' = Append(results, Collected(id, future[id]))
        /\ UNCHANGED <<apiVars, compareVars, mode, call, use_transformers,
                 neutral_threshold, df, pc, executor, submitted, queue,
                       future, result_df, ret, analyzed>>

(* Mutant: the call stops waiting once the first future has completed. *)
PoolDrainedEarly == Yielded # {}

(* TRUE when as_completed is exhausted and the with-block may exit *)
PoolDrained == Yielded = Ids(df)

(* leaving the with-block (shutdown(wait=True)), attaching and returning *)
IntegrateAndReturn ==
    /\ pc = "collect"
    /\ PoolDrained
    /\ executor' = "shutdown"
    /\ result_df' = integrate(result_df, results)
    /\ ret' = [kind |-> "returned", same |-> FALSE, rows |-> result_df', fields |-> copy(df)]
    /\ pc' = "returned"
    /\ UNCHANGED <<apiVars, compareVars, mode, call, use_transformers,
                 neutral_threshold, df, submitted, queue, future, results, analyzed>>

NextBatch ==
    \/ ReturnEmpty
    \/ OpenPool
    \/ Submit
    \/ WorkerStart
    \/ WorkerFinish
    \/ Collect
    \/ IntegrateAndReturn

SpecBatch == InitBatch /\ [][NextBatch]_vars

(* The same call on frames of text rows only, with the pool's threads and   *)
(* the calling thread scheduled fairly.                                     *)
InitBatchFair ==
    /\ InitBatch
    /\ \A p \in 1..Len(df) : InvokesClassifier(df[p]) /\ notna(df[p].title)

FairSpecBatch == InitBatchFair /\ [][NextBatch]_vars /\ WF_vars(NextBatch)

----------------------------------------------------------------------------
(* Claims about analyze_dataframe *)

(* the result a row must carry: computed from its own title/content, or the *)
(* sentinel when its classification failed                                  *)
OwnResult(id) ==
    IF future[id].fail = "none"
    THEN analyze_row(RowOf(df, id), use_transformers, neutral_threshold, FALSE)
    ELSE Sentinel

(* C1: whatever the order in which the pool workers complete, the returned   *)
(* set has exactly the input's row identities and every row carries the      *)
(* result computed from its own title/content, never another row's.          *)
C1_IdentityPreserved ==
    (pc = "returned" /\ df # <<>>) =>
        /\ DOMAIN ret.rows = Ids(df)
        /\ Cardinality(DOMAIN ret.rows) = Len(df)
        /\ \A id \in Ids(df) : ret.rows[id] = OwnResult(id)

(* two rows with different results were collected out of submission order *)
C1_Witness ==
    /\ pc = "returned"
    /\ Len(df) >= 2
    /\ results[1][1] # df[1].id
    /\ \E a, b \in Ids(df) : ret.rows[a] # ret.rows[b]
    /\ \A id \in Ids(df) : future[id].fail = "none"

(* C2: a record whose classification fails (inside analyze_text or in the    *)
(* work item) gets exactly {neutral, 0.5}; every other record keeps its own  *)
(* result; no work item is cancelled; the call returns normally.             *)
C2_FailureIsolated ==
    /\ pc \in {"start", "submit", "collect", "returned"}
    /\ \A id \in DOMAIN future : future[id].state \in {"pending", "running", "done"}
    /\ \A i \in 1..Len(results) :
          future[results[i][1]].fail # "none" => results[i][2] = Sentinel
    /\ (pc = "returned" /\ df # <<>>) =>
          /\ ret.kind = "returned"
          /\ \A id \in Ids(df) :
                /\ future[id].state = "done"
                /\ future[id].fail # "none" => ret.rows[id] = Sentinel
                /\ future[id].fail = "none" =>
                      ret.rows[id] = analyze_row(RowOf(df, id), use_transformers, neutral_threshold, FALSE)

(* one work item threw, another failed inside analyze_text, a third did not *)
C2_Witness ==
    /\ pc = "returned"
    /\ \E a, b, c \in Ids(df) :
          /\ future[a].fail = "unit"
          /\ future[b].fail = "analyzer"
          /\ future[c].fail = "none"
          /\ ret.rows[c] # Sentinel

(* C3: the call returns only after every submitted work item has finished,   *)
(* with no row lacking its sentiment fields, and under fair scheduling it    *)
(* eventually returns.                                                       *)
C3_RunsToCompletion ==
    /\ [](ret.kind = "returned" /\ df # <<>> =>
            /\ Finished = Ids(df)
            /\ queue = <<>>
            /\ executor = "shutdown"
            /\ DOMAIN ret.rows = Ids(df)
            /\ \A id \in Ids(df) : ret.rows[id] # NoSentiment)
    /\ [](pc # "returned" => ret = NotReturned)
    /\ <>(pc = "returned")

(* a full-size batch with a failed work item has returned *)
C3_Witness ==
    /\ pc = "returned"
    /\ Len(df) = MaxRows
    /\ \E id \in Ids(df) : future[id].fail = "unit"

(* C4: on an empty record set the same empty set is returned at once: no     *)
(* pool is created, nothing is submitted and no sentiment is computed.       *)
C4_EmptyShortCircuit ==
    df = <<>> =>
        /\ pc \in {"start", "returned"}
        /\ executor = "none"
        /\ submitted = 0 /\ queue = <<>> /\ future = <<>>
        /\ results = <<>> /\ analyzed = {}
        /\ pc = "returned" => (ret.kind = "returned" /\ ret.same /\ ret.rows = <<>>)

(* the call on an empty frame has returned *)
C4_Witness == df = <<>> /\ pc = "returned" /\ ret.same

----------------------------------------------------------------------------
(* Frames of the statistics and comparison operations *)

(* `count` records of one day with the same rating, version and sentiment *)
Group(day, count, rating, version, label, score) ==
    [day |-> day, count |-> count, rating |-> rating, version |-> version,
     label |-> label, score |-> score]

Frame(rows, columns, dtype) == [rows |-> rows, columns |-> columns, date_dtype |-> dtype]

(* the sum of a column of numbers *)
Sum(values) ==
    LET S[i \in 0..Len(values)] == IF i = 0 THEN 0 ELSE values[i] + S[i - 1]
    IN  S[Len(values)]

(* len(df) *)
len(f) == Sum([i \in DOMAIN f.rows |-> f.rows[i].count])

(* df.empty: no rows or no columns *)
empty(f) == len(f) = 0 \/ f.columns = {}

(* The calendar: the ISO text of day d, as the CSV file and the requests    *)
(* write it                                                                 *)
DateText ==
    <<"2025-01-01", "2025-01-02", "2025-01-03", "2025-01-04", "2025-01-05", "2025-01-06",
      "2025-01-07", "2025-01-08", "2025-01-09", "2025-01-10", "2025-01-11">>

(* NaT is no day: the days of the calendar are numbered from 1 *)
NaT == 0

strftime(d) == DateText[d]

(* pd.to_datetime of one text: the day it denotes, NaT when it denotes none *)
parses(text) == \E d \in DOMAIN DateText : DateText[d] = text

parse_date(text) ==
    IF parses(text)
    THEN CHOOSE d \in DOMAIN DateText : DateText[d] = text
    ELSE NaT

(* pd.to_datetime(df['Date'], errors='coerce') on a column of texts *)
to_datetime(f) ==
    [rows |-> [i \in DOMAIN f.rows |-> [f.rows[i] EXCEPT !.day = parse_date(@)]],
     columns |-> f.columns,
     date_dtype |-> "datetime64"]

(* if not is_datetime64_dtype(df['Date']): df['Date'] = pd.to_datetime(...) *)
converted(f) == IF f.date_dtype = "datetime64" THEN f ELSE to_datetime(f)

(* the days of a frame whose Date column is datetime64 *)
Days(f) == {f.rows[i].day : i \in 1..Len(f.rows)}

SetMax(S) == CHOOSE x \in S : \A y \in S : y <= x

SetMin(S) == CHOOSE x \in S : \A y \in S : x <= y

(* df['Rating'].sum() and df['sentiment_score'].sum() (hundredths) *)
RatingSum(f) == Sum([i \in DOMAIN f.rows |-> f.rows[i].rating * f.rows[i].count])

ScoreSum(f) == Sum([i \in DOMAIN f.rows |-> f.rows[i].score * f.rows[i].count])

(* df[df['sentiment_label'] == label].shape[0] *)
LabelCount(f, label) ==
    Sum([i \in DOMAIN f.rows |-> IF f.rows[i].label = label THEN f.rows[i].count ELSE 0])

(* df['Version'].value_counts(): per-version counts *)
VersionCount(f, v) ==
    Sum([i \in DOMAIN f.rows |-> IF f.rows[i].version = v THEN f.rows[i].count ELSE 0])

(* Mutant: among equally frequent versions the last-encountered one wins. *)
main_version_last(f) ==
    LET best == CHOOSE i \in 1..Len(f.rows) :
                    /\ \A j \in 1..Len(f.rows) :
                          VersionCount(f, f.rows[j].version) <= VersionCount(f, f.rows[i].version)
                    /\ \A j \in (i + 1)..Len(f.rows) :
                          VersionCount(f, f.rows[j].version) < VersionCount(f, f.rows[i].version)
    IN  f.rows[best].version

(* max(version_counts.items(), key=count)[0]: the most frequent version,    *)
(* the first-encountered one among equally frequent versions                *)
main_version(f) ==
    LET best == CHOOSE i \in 1..Len(f.rows) :
                    /\ \A j \in 1..Len(f.rows) :
                          VersionCount(f, f.rows[j].version) <= VersionCount(f, f.rows[i].version)
                    /\ \A j \in 1..(i - 1) :
                          VersionCount(f, f.rows[j].version) < VersionCount(f, f.rows[i].version)
    IN  f.rows[best].version

(* Exact fractions n/d with d > 0 *)
Rat(n, d) == [n |-> n, d |-> d]

RatSub(a, b) == Rat(a.n * b.d - b.n * a.d, a.d * b.d)

(* Mutant: a threshold that also fires at equality. *)
RatGT_inclusive(a, p, q) == a.n * q >= p * a.d

(* a > p/q and a < p/q for q > 0 *)
RatGT(a, p, q) == a.n * q > p * a.d

RatLT(a, p, q) == a.n * q < p * a.d

RatGE(a, p, q) == a.n * q >= p * a.d

RatLE(a, p, q) == a.n * q <= p * a.d

(* round(x, ndigits) in units of 10^-ndigits: to the nearest, a value       *)
(* exactly half way to the even neighbour                                   *)
round(a, ndigits) ==
    LET q == (a.n * 10 ^ ndigits) \div a.d
        r == (a.n * 10 ^ ndigits) % a.d
    IN  IF 2 * r < a.d THEN q
        ELSE IF 2 * r > a.d THEN q + 1
        ELSE IF q % 2 = 0 THEN q ELSE q + 1

RatAbs(a) == Rat(IF a.n < 0 THEN -a.n ELSE a.n, a.d)

RECURSIVE GCD(_, _)
GCD(a, b) == IF b = 0 THEN a ELSE GCD(b, a % b)

LCM(a, b) == (a * b) \div GCD(a, b)

(* sum and least common multiple of the values v[d] of the days lo..hi *)
SumDays(lo, hi, v) ==
    LET S[d \in (lo - 1)..hi] == IF d < lo THEN 0 ELSE v[d] + S[d - 1]
    IN  S[hi]

LCMDays(lo, hi, v) ==
    LET S[d \in (lo - 1)..hi] == IF d < lo THEN 1 ELSE LCM(v[d], S[d - 1])
    IN  S[hi]

----------------------------------------------------------------------------
(* DataAnalyzer.analyze_sentiment_trend *)

(* program constants of the trend classification and the comparison rules  *)
(* (hundredths)                                                            *)
TrendSlopeThreshold == 1
VolumeChangePct == 20
VolumeSurgePct == 50
RatingChangeSummary == 50
RatingChangeInsight == 30
SentimentChangeSummary == 20
SentimentChangeInsight == 15
RatioChangeInsight == 15
StabilitySampleSize == 100
HighRating == 4
LowRating == 3

(* records of one daily bucket and the sum of their scores *)
BucketCount(f, d) ==
    Sum([i \in DOMAIN f.rows |-> IF f.rows[i].day = d THEN f.rows[i].count ELSE 0])

BucketScore(f, d) ==
    Sum([i \in DOMAIN f.rows |->
            IF f.rows[i].day = d THEN f.rows[i].score * f.rows[i].count ELSE 0])

(* the least-squares slope of the bucket means y/L at the positions x of    *)
(* the non-empty buckets cnt[d] > 0, as an exact fraction                   *)
polyfit(first, last, cnt, y, L) ==
    LET m   == Cardinality({d \in first..last : cnt[d] > 0})
        x   == [d \in first..last |-> IF cnt[d] > 0 THEN d - first ELSE 0]
        xy  == [d \in first..last |-> x[d] * y[d]]
        xx  == [d \in first..last |-> x[d] * x[d]]
    IN  IF last - first + 1 > 1 /\ m > 1
        THEN Rat(m * SumDays(first, last, xy)
                   - SumDays(first, last, x) * SumDays(first, last, y),
                 L * (m * SumDays(first, last, xx)
                        - SumDays(first, last, x) * SumDays(first, last, x)))
        ELSE Rat(0, 1)

(* the daily means as integers over the common denominator L *)
daily_means(first, last, cnt, tot, L) ==
    polyfit(first, last, cnt,
            [d \in first..last |-> IF cnt[d] > 0 THEN tot[d] * (L \div cnt[d]) ELSE 0], L)

daily_buckets(first, last, cnt, tot) ==
    daily_means(first, last, cnt, tot,
                LCMDays(first, last, [d \in first..last |-> IF cnt[d] > 0 THEN cnt[d] ELSE 1]))

(* the rows that df.dropna(subset=['Date']) and the grouping keep: those    *)
(* whose date is a day, as a datetime64 column                              *)
dated(f) ==
    LET is_day(g) == IF f.date_dtype = "datetime64" THEN g.day # NaT ELSE parses(g.day)
    IN  converted([f EXCEPT !.rows = SelectSeq(@, is_day)])

(* np.polyfit(x_valid, y_valid, 1)[0] over the daily buckets with a mean:   *)
(* x is the bucket's position among all buckets from the first to the last  *)
(* day, y its mean score. Returned as an exact fraction (hundredths).       *)
trend_slope(f) ==
    CHOOSE slope \in
        {daily_buckets(first, last, cnt, tot) :
            first \in {SetMin(Days(f))},
            last \in {SetMax(Days(f))},
            cnt \in {[d \in SetMin(Days(f))..SetMax(Days(f)) |-> BucketCount(f, d)]},
            tot \in {[d \in SetMin(Days(f))..SetMax(Days(f)) |-> BucketScore(f, d)]}} : TRUE

(* Mutant: a slope at the threshold already counts as a trend. *)
trend_direction_inclusive(slope) ==
    IF RatGE(slope, TrendSlopeThreshold, 1) THEN "up"
    ELSE IF RatLE(slope, -TrendSlopeThreshold, 1) THEN "down"
    ELSE "stable"

(* "up", "down", "stable" stand for the texts of lines 163-167 *)
trend_direction(slope) ==
    IF RatGT(slope, TrendSlopeThreshold, 1) THEN "up"
    ELSE IF RatLT(slope, -TrendSlopeThreshold, 1) THEN "down"
    ELSE "stable"

(* the dictionary analyze_sentiment_trend returns, or the KeyError it raises *)
analyze_sentiment_trend(f) ==
    IF empty(f) \/ "sentiment_label" \notin f.columns
    THEN [kind |-> "no_trend", trend_slope |-> Rat(0, 1), trend_direction |-> "missing"]
    ELSE IF "Date" \notin f.columns \/ "sentiment_score" \notin f.columns
    THEN [kind |-> "KeyError", trend_slope |-> Rat(0, 1), trend_direction |-> "missing"]
    ELSE IF dated(f).rows = <<>>
    THEN [kind |-> "trend", trend_slope |-> Rat(0, 1),
          trend_direction |-> trend_direction(Rat(0, 1))]
    ELSE CHOOSE result \in
             {[kind |-> "trend", trend_slope |-> slope,
               trend_direction |-> trend_direction(slope)] :
                 slope \in {trend_slope(g) : g \in {dated(f)}}} : TRUE

----------------------------------------------------------------------------
(* DataAnalyzer.compare_time_periods *)

Bullet(rule) == [rule |-> rule, from |-> "", to |-> ""]

VersionBullet(rule, v1, v2) == [rule |-> rule, from |-> v1, to |-> v2]

Opt(cond, x) == IF cond THEN <<x>> ELSE <<>>

Rules(s) == {s[i].rule : i \in 1..Len(s)}

(* sections 1-4: the deltas of the per-period values *)
deltas(n1, n2, days1, days2, r1, r2, pos1, pos2, neg1, neg2, neu1, neu2, s1, s2, versions, v1, v2) ==
    [total_reviews1 |-> n1, total_reviews2 |-> n2,
     review_change |-> Rat(n2 - n1, n1),
     days1 |-> days1, days2 |-> days2,
     daily_avg1 |-> Rat(n1, days1), daily_avg2 |-> Rat(n2, days2),
     daily_avg_change |-> Rat(n2 * days1 - n1 * days2, n1 * days2),
     avg_rating1 |-> r1, avg_rating2 |-> r2,
     rating_change |-> RatSub(r2, r1),
     positive_ratio_change |-> RatSub(pos2, pos1),
     negative_ratio_change |-> RatSub(neg2, neg1),
     neutral_ratio_change |-> RatSub(neu2, neu1),
     avg_sentiment1 |-> s1, avg_sentiment2 |-> s2,
     sentiment_change |-> RatSub(s2, s1),
     main_version1 |-> v1, main_version2 |-> v2,
     version_changed |-> versions /\ v1 # v2]

(* sections 1-4: the per-period values; a section whose column is missing   *)
(* from a frame leaves its values at their defaults                         *)
period_values(f1, f2, n1, n2, sentiment, versions) ==
    LET Ratio(f, n, label) == IF sentiment THEN Rat(LabelCount(f, label), n) ELSE Rat(0, 1)
        AvgRating(f, n) == IF "Rating" \in f.columns THEN Rat(RatingSum(f), n) ELSE Rat(0, 1)
        AvgScore(f, n) ==
            IF sentiment /\ "sentiment_score" \in f.columns
            THEN Rat(ScoreSum(f), n) ELSE Rat(0, 1)
    IN  deltas(n1, n2,
               SetMax(Days(f1)) - SetMin(Days(f1)) + 1,
               SetMax(Days(f2)) - SetMin(Days(f2)) + 1,
               AvgRating(f1, n1), AvgRating(f2, n2),
               Ratio(f1, n1, "positive"), Ratio(f2, n2, "positive"),
               Ratio(f1, n1, "negative"), Ratio(f2, n2, "negative"),
               Ratio(f1, n1, "neutral"), Ratio(f2, n2, "neutral"),
               AvgScore(f1, n1), AvgScore(f2, n2),
               versions,
               IF versions THEN main_version(f1) ELSE "None",
               IF versions THEN main_version(f2) ELSE "None")

metrics(f1, f2) ==
    period_values(f1, f2, len(f1), len(f2),
                  "sentiment_label" \in f1.columns /\ "sentiment_label" \in f2.columns,
                  "Version" \in f1.columns /\ "Version" \in f2.columns)

(* section 5: the bullets of the summary rules, before the default bullet *)
summary_rules(m) ==
    Opt(RatGT(m.review_change, VolumeChangePct, 100), Bullet("volume_increased"))
    \o Opt(~RatGT(m.review_change, VolumeChangePct, 100)
             /\ RatLT(m.review_change, -VolumeChangePct, 100), Bullet("volume_decreased"))
    \o Opt(RatGT(m.rating_change, RatingChangeSummary, 100), Bullet("rating_improved"))
    \o Opt(~RatGT(m.rating_change, RatingChangeSummary, 100)
             /\ RatLT(m.rating_change, -RatingChangeSummary, 100), Bullet("rating_declined"))
    \o Opt(RatGT(m.sentiment_change, SentimentChangeSummary, 1), Bullet("sentiment_positive"))
    \o Opt(~RatGT(m.sentiment_change, SentimentChangeSummary, 1)
             /\ RatLT(m.sentiment_change, -SentimentChangeSummary, 1),
           Bullet("sentiment_negative"))
    \o Opt(m.version_changed,
           VersionBullet("version_updated", m.main_version1, m.main_version2))

NoDifference == Bullet("no_significant_difference")

(* if not summary: append the default bullet *)
with_default(sm) == IF sm = <<>> THEN <<NoDifference>> ELSE sm

summary(m) == with_default(summary_rules(m))

(* section 6: the insight rules up to the trend table *)
insight_rules(m) ==
    LET rc == m.rating_change
        sc == m.sentiment_change
        vc == m.review_change
        up == RatGT(vc, VolumeChangePct, 100)
        down == ~up /\ RatLT(vc, -VolumeChangePct, 100)
        r_up == RatGT(rc, RatingChangeInsight, 100)
        r_down == RatLT(rc, -RatingChangeInsight, 100)
        s_up == RatGT(sc, SentimentChangeInsight, 1)
        s_down == RatLT(sc, -SentimentChangeInsight, 1)
    IN  Opt(up /\ RatGT(vc, VolumeSurgePct, 100), Bullet("volume_surge"))
        \o Opt(up /\ ~RatGT(vc, VolumeSurgePct, 100), Bullet("volume_up"))
        \o Opt(down /\ RatLT(vc, -VolumeSurgePct, 100), Bullet("volume_collapse"))
        \o Opt(down /\ ~RatLT(vc, -VolumeSurgePct, 100), Bullet("volume_down"))
        \o Opt(r_up /\ s_up, Bullet("rating_sentiment_up"))
        \o Opt(~(r_up /\ s_up) /\ r_down /\ s_down, Bullet("rating_sentiment_down"))
        \o Opt(~(r_up /\ s_up) /\ ~(r_down /\ s_down) /\ r_up /\ s_down,
               Bullet("rating_up_sentiment_down"))
        \o Opt(~(r_up /\ s_up) /\ ~(r_down /\ s_down) /\ ~(r_up /\ s_down)
                 /\ r_down /\ s_up, Bullet("rating_down_sentiment_up"))
        \o Opt(RatGT(RatAbs(m.neutral_ratio_change), RatioChangeInsight, 100)
                 /\ m.neutral_ratio_change.n > 0, Bullet("neutral_up"))
        \o Opt(RatGT(RatAbs(m.neutral_ratio_change), RatioChangeInsight, 100)
                 /\ ~(m.neutral_ratio_change.n > 0), Bullet("neutral_down"))
        \o Opt(RatGT(m.positive_ratio_change, RatioChangeInsight, 100)
                 /\ RatLT(m.negative_ratio_change, -RatioChangeInsight, 100),
               Bullet("positive_up_negative_down"))
        \o Opt(~(RatGT(m.positive_ratio_change, RatioChangeInsight, 100)
                   /\ RatLT(m.negative_ratio_change, -RatioChangeInsight, 100))
                 /\ RatLT(m.positive_ratio_change, -RatioChangeInsight, 100)
                 /\ RatGT(m.negative_ratio_change, RatioChangeInsight, 100),
               Bullet("positive_down_negative_up"))
        \o Opt(m.version_changed /\ r_up,
               VersionBullet("version_well_received", m.main_version1, m.main_version2))
        \o Opt(m.version_changed /\ ~r_up /\ r_down,
               VersionBullet("version_badly_received", m.main_version1, m.main_version2))
        \o Opt(m.version_changed /\ ~r_up /\ ~r_down,
               VersionBullet("version_no_effect", m.main_version1, m.main_version2))
        \o Opt(up /\ r_up, Bullet("volume_up_rating_up"))
        \o Opt(~(up /\ r_up) /\ down /\ r_down, Bullet("volume_down_rating_down"))
        \o Opt(~(up /\ r_up) /\ ~(down /\ r_down) /\ up /\ r_down,
               Bullet("volume_up_rating_down"))

(* Mutant: a rising trend that flattens is reported as a regression too. *)
trend_insight_any_change(t1, t2) ==
    Opt(t1 = "down" /\ t2 = "up", Bullet("trend_recovering"))
    \o Opt(t1 = "up" /\ t2 # "up", Bullet("trend_regressing"))
    \o Opt(t1 = "stable" /\ t2 = "up", Bullet("trend_stable_to_up"))
    \o Opt(t1 = "stable" /\ t2 = "down", Bullet("trend_stable_to_down"))
    \o Opt(t1 = t2 /\ t1 = "up", Bullet("trend_still_up"))
    \o Opt(t1 = t2 /\ t1 = "down", Bullet("trend_still_down"))

(* the trend-direction transition table *)
trend_insight(t1, t2) ==
    Opt(t1 = "down" /\ t2 = "up", Bullet("trend_recovering"))
    \o Opt(t1 = "up" /\ t2 = "down", Bullet("trend_regressing"))
    \o Opt(t1 = "stable" /\ t2 = "up", Bullet("trend_stable_to_up"))
    \o Opt(t1 = "stable" /\ t2 = "down", Bullet("trend_stable_to_down"))
    \o Opt(t1 = t2 /\ t1 = "up", Bullet("trend_still_up"))
    \o Opt(t1 = t2 /\ t1 = "down", Bullet("trend_still_down"))

(* TRUE when the stability analysis is entered: the summary holds nothing   *)
(* but the default bullet                                                   *)
no_obvious_change(sm) == sm = <<>> \/ (Len(sm) = 1 /\ sm[1] = NoDifference)

(* Mutant: exactly 100 records count as enough. *)
enough_samples_inclusive(m) ==
    m.total_reviews1 >= StabilitySampleSize /\ m.total_reviews2 >= StabilitySampleSize

enough_samples(m) ==
    m.total_reviews1 > StabilitySampleSize /\ m.total_reviews2 > StabilitySampleSize

stability_insight(m, sm) ==
    IF no_obvious_change(sm) /\ enough_samples(m)
    THEN <<Bullet("stable_data")>>
         \o Opt(RatGE(m.avg_rating1, HighRating, 1) /\ RatGE(m.avg_rating2, HighRating, 1),
                Bullet("rating_stays_high"))
         \o Opt(~(RatGE(m.avg_rating1, HighRating, 1) /\ RatGE(m.avg_rating2, HighRating, 1))
                  /\ RatLE(m.avg_rating1, LowRating, 1) /\ RatLE(m.avg_rating2, LowRating, 1),
                Bullet("rating_stays_low"))
    ELSE <<>>

KeepMonitoring == Bullet("keep_monitoring")

(* Mutant: no fallback is appended. *)
without_fallback(insights) == insights

(* if not detailed_insights: append the generic fallback *)
with_fallback(insights) == IF insights = <<>> THEN <<KeepMonitoring>> ELSE insights

detailed_insights(m, t1, t2) ==
    with_fallback(insight_rules(m) \o trend_insight(t1, t2) \o stability_insight(m, summary(m)))

Marker == [kind |-> "marker"]

Raised == [kind |-> "KeyError"]

(* TRUE when the trend table raises: the trend of a frame has no            *)
(* trend_direction                                                          *)
compare_raises(t1, t2) == t1.kind # "trend" \/ t2.kind # "trend"

(* the dictionary of a completed comparison *)
full_result(m, t1, t2) ==
    [kind |-> "full",
     metrics |-> m,
     review_volume |-> [daily_average1 |-> round(m.daily_avg1, 2),
                        daily_average2 |-> round(m.daily_avg2, 2)],
     rating |-> [change |-> [average_rating |-> round(m.rating_change, 2)]],
     summary |-> summary(m),
     detailed_insights |-> detailed_insights(m, t1.trend_direction, t2.trend_direction)]

(* Each intermediate value of the call is computed once and then used: it  *)
(* is bound as the element of a one-element set.                            *)
compare_trends(c1, c2, t1, t2) ==
    IF compare_raises(t1, t2) THEN Raised
    ELSE CHOOSE r \in {full_result(m, t1, t2) : m \in {metrics(c1, c2)}} : TRUE

(* the body after the Date columns were converted *)
compare_converted(c1, c2) ==
    CHOOSE r \in {compare_trends(c1, c2, t1, t2) :
                      t1 \in {analyze_sentiment_trend(c1)},
                      t2 \in {analyze_sentiment_trend(c2)}} : TRUE

(* Mutant: the marker is returned only when both periods are empty. *)
both_empty(f1, f2) == empty(f1) /\ empty(f2)

(* if df1.empty or df2.empty *)
either_empty(f1, f2) == empty(f1) \/ empty(f2)

(* what compare_time_periods(df1, df2) returns, or the KeyError it raises *)
compare_time_periods(f1, f2) ==
    IF either_empty(f1, f2) THEN Marker
    ELSE IF "Date" \notin f1.columns \/ "Date" \notin f2.columns THEN Raised
    ELSE CHOOSE r \in {compare_converted(c1, c2) :
                           c1 \in {converted(f1)}, c2 \in {converted(f2)}} : TRUE

(* Mutant: the call also removes the last day from the caller's frame. *)
df1_after_dropping(f1, f2) ==
    IF either_empty(f1, f2) \/ "Date" \notin f1.columns THEN f1
    ELSE [converted(f1) EXCEPT !.rows = SubSeq(@, 1, Len(@) - 1)]

(* the callers' frames after the call: lines 271-274 convert the Date       *)
(* column in place                                                          *)
df1_after(f1, f2) ==
    IF either_empty(f1, f2) \/ "Date" \notin f1.columns THEN f1 ELSE converted(f1)

df2_after(f1, f2) ==
    IF either_empty(f1, f2) \/ "Date" \notin f1.columns \/ "Date" \notin f2.columns
    THEN f2 ELSE converted(f2)

(* one call of compare_time_periods(df1, df2) *)
CompareTimePeriods ==
    /\ mode \in {"compare", "daily"}
    /\ Len(comparison) < MaxCalls
    /\ comparison' = Append(comparison, compare_time_periods(df1, df2))
    /\ df1' = df1_after(df1, df2)
    /\ df2' = df2_after(df1, df2)
    /\ UNCHANGED <<mode, call, batchVars, apiVars>>

NextCompare == CompareTimePeriods

(* Periods of whole days of classified reviews, on consecutive days *)
DayKinds ==
    { [count |-> 50, rating |-> 4, version |-> "1.1.0", label |-> "neutral",  score |-> 0],
      [count |-> 60, rating |-> 4, version |-> "1.1.0", label |-> "neutral",  score |-> 0],
      [count |-> 60, rating |-> 3, version |-> "1.1.0", label |-> "neutral",  score |-> 0],
      [count |-> 50, rating |-> 4, version |-> "1.1.0", label |-> "positive", score |-> 40],
      [count |-> 50, rating |-> 4, version |-> "1.1.1", label |-> "neutral",  score |-> 0] }

(* the rows of a period: one group per day, the day written as a text in   *)
(* an object column                                                         *)
Period(kinds, dtype) ==
    { [d \in 1..Len(ks) |-> Group(IF dtype = "object" THEN strftime(d) ELSE d,
                                  ks[d].count, ks[d].rating, ks[d].version,
                                  ks[d].label, ks[d].score)] :
        ks \in SeqsUpTo(kinds, MaxGroups) }

InitIdleBatch ==
    /\ call = NoCall
    /\ use_transformers = FALSE
    /\ neutral_threshold = NeutralThreshold
    /\ df = <<>>
    /\ pc = "idle"
    /\ executor = "none"
    /\ submitted = 0
    /\ queue = <<>>
    /\ future = <<>>
    /\ results = <<>>
    /\ result_df = <<>>
    /\ ret = NotReturned
    /\ analyzed = {}

(* two classified periods whose Date columns still hold the file's texts *)
InitCompare ==
    /\ mode = "compare"
    /\ InitIdleBatch
    /\ df1 \in {Frame(rows, Columns, "object") : rows \in Period(DayKinds, "object")}
    /\ df2 \in {Frame(rows, Columns, "object") : rows \in Period(DayKinds, "object")}
    /\ comparison = <<>>
    /\ processed_data = NoFrame /\ raw_data = NoFrame /\ log = <<>>
    /\ response = NoResponse

SpecCompare == InitCompare /\ [][NextCompare]_vars

(* Periods of a few reviews whose mean ratings differ by about half a star *)
RatingKinds ==
    { [count |-> 14, rating |-> 1, version |-> "1.1.0", label |-> "neutral", score |-> 0],
      [count |-> 1,  rating |-> 2, version |-> "1.1.0", label |-> "neutral", score |-> 0],
      [count |-> 6,  rating |-> 1, version |-> "1.1.0", label |-> "neutral", score |-> 0],
      [count |-> 8,  rating |-> 2, version |-> "1.1.0", label |-> "neutral", score |-> 0] }

InitRating ==
    /\ mode = "compare"
    /\ InitIdleBatch
    /\ df1 \in {Frame(rows, Columns, "object") : rows \in Period(RatingKinds, "object")}
    /\ df2 \in {Frame(rows, Columns, "object") : rows \in Period(RatingKinds, "object")}
    /\ comparison = <<>>
    /\ processed_data = NoFrame /\ raw_data = NoFrame /\ log = <<>>
    /\ response = NoResponse

SpecRating == InitRating /\ [][NextCompare]_vars

----------------------------------------------------------------------------
(* POST /api/comparison: compare_periods *)

MinSamples == 10

CsvColumns == {"Country", "Rating", "Date", "Version", "Username", "Title", "Content"}

SentimentColumns == {"sentiment_label", "sentiment_score"}

(* load_data raised: the CSV file cannot be read *)
LoadFails == [rows |-> <<>>, columns |-> {}, date_dtype |-> "unreadable"]

(* load_data raised a ValueError: pandas reports an empty or malformed file *)
(* as EmptyDataError or ParserError, both subclasses of ValueError          *)
LoadRejects == [rows |-> <<>>, columns |-> {}, date_dtype |-> "malformed"]

(* the exception load_data re-raises, "None" when it returns the frame *)
load_data(data) ==
    IF data = LoadFails THEN "Exception"
    ELSE IF data = LoadRejects THEN "ValueError"
    ELSE "None"

BadDate == "2025-13-45"

Request(s1, e1, s2, e2) ==
    [period1_start |-> s1, period1_end |-> e1, period2_start |-> s2, period2_end |-> e2]

(* DataProcessor.filter_by_date_range: the rows with start <= Date <= end *)
filter_by_date_range(data, start, end) ==
    LET in_range(g) == start <= g.day /\ g.day <= end
    IN  [data EXCEPT !.rows = SelectSeq(@, in_range)]

(* what analyze_dataframe returns: the frame itself when empty, else a copy *)
(* with the two sentiment columns attached to the same rows                 *)
analyze_dataframe(f) ==
    IF empty(f) THEN f ELSE [f EXCEPT !.columns = @ \cup SentimentColumns]

NoResult == [kind |-> "none"]

InsufficientData == [kind |-> "warning"]

Response(status, request, n1, n2, result, report) ==
    [status |-> status, request |-> request,
     review_count1 |-> n1, review_count2 |-> n2,
     comparison_result |-> result, report_path |-> report]

HTTPException(code, request) == Response(code, request, 0, 0, NoResult, "None")

(* Mutant: the gate closes only when both periods are short. *)
insufficient_both(n1, n2) == n1 < MinSamples /\ n2 < MinSamples

(* if len(df_period1) < 10 or len(df_period2) < 10 *)
insufficient(n1, n2) == n1 < MinSamples \/ n2 < MinSamples

(* steps 3-7 of the handler *)
analyze_and_compare(request, p1, p2, result) ==
    IF result.kind = "KeyError" THEN HTTPException("500", request)
    ELSE Response("success", request, len(p1), len(p2), result, "reports/comparison.json")

(* steps 2-7 of the handler on the loaded data *)
compare_filtered(request, p1, p2) ==
    IF insufficient(len(p1), len(p2))
    THEN Response("warning", request, len(p1), len(p2), InsufficientData, "None")
    ELSE analyze_and_compare(request, p1, p2,
                             compare_time_periods(analyze_dataframe(p1), analyze_dataframe(p2)))

(* the answer of compare_periods to `request` when load_data gives `data` *)
compare_periods(data, request) ==
    IF load_data(data) = "Exception" THEN HTTPException("500", request)
    ELSE IF load_data(data) = "ValueError" THEN HTTPException("400", request)
    ELSE IF \E text \in {request.period1_start, request.period1_end,
                          request.period2_start, request.period2_end} : ~parses(text)
    THEN HTTPException("400", request)
    ELSE compare_filtered(request,
             filter_by_date_range(data, parse_date(request.period1_start),
                                        parse_date(request.period1_end)),
             filter_by_date_range(data, parse_date(request.period2_start),
                                        parse_date(request.period2_end)))

(* one call made by a handler, and whether it raises *)
Step(operation, raises) == [operation |-> operation, raises |-> raises]

(* the calls of a handler up to and including the first one that raises *)
calls_until_raise(steps) ==
    LET raising == {i \in 1..Len(steps) : steps[i].raises}
    IN  [i \in 1..(IF raising = {} THEN Len(steps) ELSE SetMin(raising)) |-> steps[i].operation]

(* steps 4.1-4.5 of the handlers on one classified period *)
statistics_steps(p) ==
    << Step("analyze_review_volume", "Date" \notin p.columns \/ dated(p).rows = <<>>),
       Step("analyze_sentiment_distribution",
            "Rating" \in p.columns /\ len(p) > 1 /\ "sentiment_score" \notin p.columns),
       Step("analyze_sentiment_trend", analyze_sentiment_trend(p).kind = "KeyError"),
       Step("analyze_topics", FALSE) >>

(* steps 3-6 of compare_periods: each operation on period 1, then on        *)
(* period 2; the comparison; the report in the default format               *)
analysis_steps(p1, p2) ==
    << Step("analyze_dataframe", FALSE), Step("analyze_dataframe", FALSE),
       Step("get_data_stats", FALSE), Step("get_data_stats", FALSE),
       statistics_steps(p1)[1], statistics_steps(p2)[1],
       statistics_steps(p1)[2], statistics_steps(p2)[2],
       statistics_steps(p1)[3], statistics_steps(p2)[3],
       statistics_steps(p1)[4], statistics_steps(p2)[4],
       Step("compare_time_periods", compare_time_periods(p1, p2).kind = "KeyError"),
       Step("generate_json_report", FALSE) >>

(* Mutant: period 1 is classified before the record counts are tested. *)
gated_calls_after_classifying(p1, p2) ==
    IF insufficient(len(p1), len(p2)) THEN <<"analyze_dataframe">>
    ELSE calls_until_raise(analysis_steps(analyze_dataframe(p1), analyze_dataframe(p2)))

(* the calls compare_periods makes once both periods are filtered *)
gated_calls(p1, p2) ==
    IF insufficient(len(p1), len(p2)) THEN <<>>
    ELSE calls_until_raise(analysis_steps(analyze_dataframe(p1), analyze_dataframe(p2)))

(* the calls compare_periods makes, in order *)
compare_periods_calls(data, request) ==
    IF load_data(data) # "None" THEN <<"load_data">>
    ELSE IF ~parses(request.period1_start) \/ ~parses(request.period1_end)
    THEN <<"load_data", "filter_by_date_range">>
    ELSE IF ~parses(request.period2_start) \/ ~parses(request.period2_end)
    THEN <<"load_data", "filter_by_date_range", "filter_by_date_range">>
    ELSE <<"load_data", "filter_by_date_range", "filter_by_date_range">>
           \o gated_calls(filter_by_date_range(data, parse_date(request.period1_start),
                                                     parse_date(request.period1_end)),
                          filter_by_date_range(data, parse_date(request.period2_start),
                                                     parse_date(request.period2_end)))

RequestDates == {strftime(d) : d \in 1..MaxGroups} \cup {BadDate}

(* one request handled from load to response; the client sends its next    *)
(* request after it has taken the answer to the previous one                *)
ComparePeriods ==
    /\ mode = "api"
    /\ response = NoResponse
    /\ \E s1 \in RequestDates, e1 \in RequestDates, s2 \in RequestDates, e2 \in RequestDates :
          /\ response' = compare_periods(processed_data, Request(s1, e1, s2, e2))
          /\ log' = compare_periods_calls(processed_data, Request(s1, e1, s2, e2))
    /\ UNCHANGED <<mode, call, batchVars, compareVars, processed_data, raw_data>>

(* the answer leaves the server, which keeps nothing of the request *)
ReturnResponse ==
    /\ mode = "api"
    /\ response # NoResponse
    /\ response' = NoResponse
    /\ log' = <<>>
    /\ UNCHANGED <<mode, call, batchVars, compareVars, processed_data, raw_data>>

(* Days of the review file: few enough reviews that a period of one or two  *)
(* days lies on either side of the admission gate                           *)
FileDayKinds ==
    { [count |-> 4,  rating |-> 4, version |-> "1.1.0", label |-> "neutral",  score |-> 0],
      [count |-> 5,  rating |-> 3, version |-> "1.1.0", label |-> "positive", score |-> 40],
      [count |-> 10, rating |-> 4, version |-> "1.1.1", label |-> "neutral",  score |-> 0] }

InitApi ==
    /\ mode = "api"
    /\ InitIdleBatch
    /\ df1 = NoFrame /\ df2 = NoFrame /\ comparison = <<>>
    /\ raw_data = NoFrame /\ log = <<>>
    /\ processed_data \in
           {Frame(rows, CsvColumns, "datetime64") : rows \in Period(FileDayKinds, "datetime64")}
             \cup {LoadFails}
    /\ response = NoResponse

(* Frames handed to compare_time_periods directly: few records, and any of  *)
(* the columns the comparison reads may be missing                          *)
SmallDayKinds ==
    { [count |-> 5,  rating |-> 4, version |-> "1.1.0", label |-> "neutral",  score |-> 0],
      [count |-> 10, rating |-> 3, version |-> "1.1.1", label |-> "positive", score |-> 40] }

ColumnChoices == {Columns} \cup {Columns \ {c} : c \in Columns} \cup {{}}

InitDirect ==
    /\ mode = "compare"
    /\ InitIdleBatch
    /\ df1 \in {Frame(rows, cols, "object") :
                   rows \in Period(SmallDayKinds, "object"), cols \in ColumnChoices}
    /\ df2 \in {Frame(rows, cols, "object") :
                   rows \in Period(SmallDayKinds, "object"), cols \in ColumnChoices}
    /\ comparison = <<>>
    /\ processed_data = NoFrame /\ raw_data = NoFrame /\ log = <<>>
    /\ response = NoResponse

NextGate == ComparePeriods \/ ReturnResponse \/ CompareTimePeriods

SpecGate == (InitApi \/ InitDirect) /\ [][NextGate]_vars

----------------------------------------------------------------------------
(* Claims about compare_time_periods and the /api/comparison gate *)

(* the records of `data` dated from `start` to `end`, both given as text *)
RecordsBetween(data, start, end) ==
    Sum([i \in DOMAIN data.rows |->
            IF parse_date(start) <= data.rows[i].day /\ data.rows[i].day <= parse_date(end)
            THEN data.rows[i].count ELSE 0])

Calls == 1..Len(comparison)

C6_EmptyPeriodMarker ==
    \A i \in Calls :
        (df1.rows = <<>> \/ df2.rows = <<>>) => comparison[i] = Marker

(* an empty first period against a non-empty second one without Date *)
C6_Witness ==
    /\ comparison # <<>>
    /\ df1.rows = <<>>
    /\ df2.rows # <<>>
    /\ "Date" \notin df2.columns
    /\ df2.columns # {}
    /\ comparison[1] = Marker

(* the result of the latest call; every call is the latest one in the state *)
(* it leads to                                                              *)
Latest == comparison[Len(comparison)]

FullResult == comparison # <<>> /\ Latest.kind = "full"

Has(list, rule) == \E k \in 1..Len(list) : list[k].rule = rule

(* C7: in every full result each summary statement is present exactly when  *)
(* its own condition holds: volume change above +20% / below -20%, rating   *)
(* delta above +0.5 / below -0.5, mean-sentiment delta above +0.2 / below   *)
(* -0.2, main version changed; the no-significant-difference statement is   *)
(* present exactly when none of them is, so the summary is never empty.     *)
(* n, r and s are a period's record count, rating sum and score sum         *)
(* (hundredths); a delta of means d satisfies d > p/100 iff                 *)
(* (x2 * n1 - x1 * n2) * 100 > p * n1 * n2.                                 *)
C7_SummaryRuleTable ==
    FullResult =>
        \A n1 \in {len(df1)}, n2 \in {len(df2)},
           r1 \in {RatingSum(df1)}, r2 \in {RatingSum(df2)},
           s1 \in {ScoreSum(df1)}, s2 \in {ScoreSum(df2)}, sm \in {Latest.summary} :
            /\ Has(sm, "volume_increased") <=> (n2 - n1) * 100 > 20 * n1
            /\ Has(sm, "volume_decreased") <=> (n2 - n1) * 100 < -20 * n1
            /\ Has(sm, "rating_improved") <=> (r2 * n1 - r1 * n2) * 100 > 50 * n1 * n2
            /\ Has(sm, "rating_declined") <=> (r2 * n1 - r1 * n2) * 100 < -50 * n1 * n2
            /\ Has(sm, "sentiment_positive") <=> s2 * n1 - s1 * n2 > 20 * n1 * n2
            /\ Has(sm, "sentiment_negative") <=> s2 * n1 - s1 * n2 < -20 * n1 * n2
            /\ Has(sm, "version_updated") <=> main_version(df1) # main_version(df2)
            /\ Has(sm, "no_significant_difference") <=>
                  ~\E k \in 1..Len(sm) : sm[k] # NoDifference
            /\ sm # <<>>

(* a volume change of exactly +20% fires no volume statement while the      *)
(* rating statement of the same comparison is emitted                       *)
C7_Witness ==
    /\ FullResult
    /\ (len(df2) - len(df1)) * 100 = 20 * len(df1)
    /\ ~Has(Latest.summary, "volume_increased")
    /\ Has(Latest.summary, "rating_declined")

(* C8: the detailed insights of a full result are never empty, and the      *)
(* keep-monitoring fallback is there exactly when nothing else is.          *)
C8_InsightsNeverEmpty ==
    FullResult =>
        /\ Latest.detailed_insights # <<>>
        /\ Has(Latest.detailed_insights, "keep_monitoring")
              <=> Latest.detailed_insights = <<KeepMonitoring>>

(* two periods without any difference: the fallback alone *)
C8_Witness ==
    /\ FullResult
    /\ Latest.summary = <<NoDifference>>
    /\ Latest.detailed_insights = <<KeepMonitoring>>

StabilityRules == {"stable_data", "rating_stays_high", "rating_stays_low"}

(* the insights other than the stability note and the fallback *)
OtherInsights(di) == Rules(di) \ (StabilityRules \cup {"keep_monitoring"})

(* C9 (as the code has it): the stability note is emitted exactly when the  *)
(* summary holds nothing but the no-significant-difference statement and    *)
(* both periods have more than 100 records, whether or not other detailed   *)
(* insights were emitted; it takes the high-rating framing when both mean   *)
(* ratings are >= 4.0 and the low-rating framing when both are <= 3.0.      *)
C9_StabilityNote ==
    FullResult =>
        \A n1 \in {len(df1)}, n2 \in {len(df2)},
           r1 \in {RatingSum(df1)}, r2 \in {RatingSum(df2)},
           di \in {Latest.detailed_insights} :
            LET stable == Latest.summary = <<NoDifference>> /\ n1 > 100 /\ n2 > 100
            IN  /\ Has(di, "stable_data") <=> stable
                /\ Has(di, "rating_stays_high") <=> (stable /\ r1 >= 4 * n1 /\ r2 >= 4 * n2)
                /\ Has(di, "rating_stays_low") <=> (stable /\ r1 <= 3 * n1 /\ r2 <= 3 * n2)

(* the stability note with the high-rating framing, beside another insight *)
C9_Witness ==
    /\ FullResult
    /\ Has(Latest.detailed_insights, "stable_data")
    /\ Has(Latest.detailed_insights, "rating_stays_high")
    /\ OtherInsights(Latest.detailed_insights) # {}

(* C9 (as the specification words it): whenever no detailed-insight rule    *)
(* fires and both periods have at least 100 records the stability note is   *)
(* emitted, and it is emitted only when no rule fired.                      *)
C9_StabilityAtHundred ==
    FullResult =>
        /\ (/\ OtherInsights(Latest.detailed_insights) = {}
            /\ len(df1) >= 100
            /\ len(df2) >= 100) => Has(Latest.detailed_insights, "stable_data")
        /\ Has(Latest.detailed_insights, "stable_data")
              => OtherInsights(Latest.detailed_insights) = {}

----------------------------------------------------------------------------
(* Claims about missing columns and request handling *)

OptionalColumns == {"Version", "sentiment_label", "sentiment_score"}

(* C11: a call on two non-empty periods from which only optional columns    *)
(* (Version, sentiment_label, sentiment_score) are missing returns a full   *)
(* result and does not raise; the values that depend on a missing column    *)
(* are at their defaults: without the sentiment columns the three ratio     *)
(* deltas and the mean-sentiment delta are 0, without Version the main      *)
(* versions are none and version_changed is false.                          *)
C11_MissingColumnsDegrade ==
    \A i \in Calls :
        (/\ ~empty(df1) /\ ~empty(df2)
         /\ Columns \ df1.columns \subseteq OptionalColumns
         /\ Columns \ df2.columns \subseteq OptionalColumns) =>
            /\ comparison[i].kind = "full"
            /\ comparison[i].summary # <<>>
            /\ comparison[i].detailed_insights # <<>>
            /\ ("sentiment_label" \notin df1.columns \cap df2.columns) =>
                  /\ comparison[i].metrics.positive_ratio_change.n = 0
                  /\ comparison[i].metrics.negative_ratio_change.n = 0
                  /\ comparison[i].metrics.neutral_ratio_change.n = 0
                  /\ comparison[i].metrics.sentiment_change.n = 0
            /\ ("Version" \notin df1.columns \cap df2.columns) =>
                  /\ comparison[i].metrics.main_version1 = "None"
                  /\ comparison[i].metrics.main_version2 = "None"
                  /\ ~comparison[i].metrics.version_changed

Answered == response # NoResponse

RequestTexts ==
    {response.request.period1_start, response.request.period1_end,
     response.request.period2_start, response.request.period2_end}

Unparseable == \E text \in RequestTexts : ~parses(text)

(* a period of the answered request whose start lies after its end *)
BadRange ==
    /\ ~Unparseable
    /\ \/ parse_date(response.request.period1_start) > parse_date(response.request.period1_end)
       \/ parse_date(response.request.period2_start) > parse_date(response.request.period2_end)

(* C12: a request with an unparseable date or with a period whose start is  *)
(* after its end is answered with HTTP 400, never with a success or an      *)
(* insufficient-data warning (the review file being readable).              *)
C12_InvalidRequestRejected ==
    (Answered /\ processed_data # LoadFails /\ (Unparseable \/ BadRange)) =>
        response.status = "400"

----------------------------------------------------------------------------
(* The other endpoints: /api/period-analysis, /api/data/status,            *)
(* /api/data/date-range                                                    *)

NoRequest == [start_date |-> "None", end_date |-> "None"]

PeriodRequest(start, end) == [start_date |-> start, end_date |-> end]

NoBody == [review_count |-> 0, min_date |-> "None", max_date |-> "None"]

Answer(operation, status, request, detail, body) ==
    [operation |-> operation, status |-> status, request |-> request,
     detail |-> detail, body |-> body]

(* Mutant: the handler has no clause for exceptions other than ValueError, *)
(* which then leave the handler as they are.                               *)
handle_value_errors_only(raised) == IF raised = "ValueError" THEN "400" ELSE "raised"

(* except ValueError -> HTTPException(400); except Exception -> 500 *)
handle(raised) == IF raised = "ValueError" THEN "400" ELSE "500"

(* except Exception -> HTTPException(500), the only clause *)
handle_any(raised) == "500"

(* steps 3-5 of analyze_single_period on the filtered period *)
analyze_period(request, p) ==
    IF len(p) < MinSamples
    THEN Answer("period-analysis", "warning", request, "None",
                [NoBody EXCEPT !.review_count = len(p)])
    ELSE IF analyze_sentiment_trend(analyze_dataframe(p)).kind = "KeyError"
    THEN Answer("period-analysis", handle("Exception"), request, "Exception", NoBody)
    ELSE Answer("period-analysis", "success", request, "None",
                [NoBody EXCEPT !.review_count = len(p)])

(* the answer of analyze_single_period when load_data gives `data` *)
analyze_single_period(data, request) ==
    IF load_data(data) # "None"
    THEN Answer("period-analysis", handle(load_data(data)), request, load_data(data), NoBody)
    ELSE IF ~parses(request.start_date) \/ ~parses(request.end_date)
    THEN Answer("period-analysis", handle("ValueError"), request, "ValueError", NoBody)
    ELSE analyze_period(request,
             filter_by_date_range(data, parse_date(request.start_date),
                                        parse_date(request.end_date)))

(* the answer of get_data_status when load_data gives `data` *)
get_data_status(data) ==
    IF load_data(data) # "None"
    THEN Answer("data-status", handle_any(load_data(data)), NoRequest, load_data(data), NoBody)
    ELSE Answer("data-status", "success", NoRequest, "None",
                [review_count |-> len(data),
                 min_date |-> IF empty(data) THEN "None" ELSE strftime(SetMin(Days(data))),
                 max_date |-> IF empty(data) THEN "None" ELSE strftime(SetMax(Days(data)))])

(* the answer of get_date_range when load_data gives `data` *)
get_date_range(data) ==
    IF load_data(data) # "None"
    THEN Answer("date-range", handle_any(load_data(data)), NoRequest, load_data(data), NoBody)
    ELSE Answer("date-range", "success", NoRequest, "None",
                [review_count |-> 0,
                 min_date |-> IF empty(data) THEN "None" ELSE strftime(SetMin(Days(data))),
                 max_date |-> IF empty(data) THEN "None" ELSE strftime(SetMax(Days(data)))])

(* the calls analyze_single_period makes once the period is filtered *)
period_calls(p) ==
    IF len(p) < MinSamples THEN <<>>
    ELSE calls_until_raise(<<Step("analyze_dataframe", FALSE), Step("get_data_stats", FALSE)>>
                             \o statistics_steps(analyze_dataframe(p)))

(* the calls analyze_single_period makes, in order *)
analyze_single_period_calls(data, request) ==
    IF load_data(data) # "None" THEN <<"load_data">>
    ELSE IF ~parses(request.start_date) \/ ~parses(request.end_date)
    THEN <<"load_data", "filter_by_date_range">>
    ELSE <<"load_data", "filter_by_date_range">>
           \o period_calls(filter_by_date_range(data, parse_date(request.start_date),
                                                      parse_date(request.end_date)))

(* the calls get_data_status and get_date_range make *)
get_data_status_calls(data) ==
    IF load_data(data) # "None" THEN <<"load_data">> ELSE <<"load_data", "get_data_stats">>

AnalyzeSinglePeriod ==
    /\ mode = "api"
    /\ response = NoResponse
    /\ \E start \in RequestDates, end \in RequestDates :
          /\ response' = analyze_single_period(processed_data, PeriodRequest(start, end))
          /\ log' = analyze_single_period_calls(processed_data, PeriodRequest(start, end))
    /\ UNCHANGED <<mode, call, batchVars, compareVars, processed_data, raw_data>>

GetDataStatus ==
    /\ mode = "api"
    /\ response = NoResponse
    /\ response' = get_data_status(processed_data)
    /\ log' = get_data_status_calls(processed_data)
    /\ UNCHANGED <<mode, call, batchVars, compareVars, processed_data, raw_data>>

GetDateRange ==
    /\ mode = "api"
    /\ response = NoResponse
    /\ response' = get_date_range(processed_data)
    /\ log' = <<"load_data">>
    /\ UNCHANGED <<mode, call, batchVars, compareVars, processed_data, raw_data>>

InitService ==
    /\ mode = "api"
    /\ InitIdleBatch
    /\ df1 = NoFrame /\ df2 = NoFrame /\ comparison = <<>>
    /\ raw_data = NoFrame /\ log = <<>>
    /\ processed_data \in
           {Frame(rows, CsvColumns, "datetime64") : rows \in Period(FileDayKinds, "datetime64")}
             \cup {LoadFails, LoadRejects}
    /\ response = NoResponse

NextService ==
    \/ ComparePeriods
    \/ AnalyzeSinglePeriod
    \/ GetDataStatus
    \/ GetDateRange
    \/ ReturnResponse

SpecService == InitService /\ [][NextService]_vars

(* the operation a response answers; the comparison's response has its own shape *)
Operation == IF "operation" \in DOMAIN response THEN response.operation ELSE "comparison"

(* the texts of the dates the answered request carries *)
DatesAsked ==
    IF Operation = "comparison" THEN RequestTexts
    ELSE IF Operation = "period-analysis"
    THEN {response.request.start_date, response.request.end_date}
    ELSE {}

(* the exception the pipeline raised while serving the answered request *)
Fault ==
    IF load_data(processed_data) # "None" THEN load_data(processed_data)
    ELSE IF \E text \in DatesAsked : ~parses(text) THEN "ValueError"
    ELSE "None"

StructuredOutcomes == {"success", "warning", "400", "500"}

----------------------------------------------------------------------------
(* Direct calls of analyze_text and of analyze_dataframe's analyze_row *)

MaxWords == 2

Words == {"love", "hate", "nice", "poor", "okay", " "}

(* what a caller may pass as `text`: texts, None, nan, integers *)
TextValues ==
    {Str(s) : s \in SeqsUpTo(Words, MaxWords)} \cup {None, NaN, Number(0), Number(123)}

(* the cells of a row's Title and Content: missing, empty, blank, a word *)
Cells == {NaN, Str(<<>>), Str(<<" ">>), Str(<<"okay">>), Str(<<"love">>)}

Rows == {[id |-> IndexLabel(0), title |-> t, content |-> c] : t \in Cells, c \in Cells}

(* thresholds an analyzer is constructed with: the default and a wider one *)
Thresholds == {NeutralThreshold, 80}

AnalyzeText ==
    /\ mode = "text"
    /\ call = NoCall
    /\ \E value \in TextValues, raises \in BOOLEAN :
          call' = [operation |-> "analyze_text",
                   argument |-> value,
                   text |-> value,
                   invoked |-> passes_guard(value),
                   raised |-> passes_guard(value) /\ raises,
                   result |-> analyze_text(value, use_transformers, neutral_threshold, raises)]
    /\ UNCHANGED <<mode, batchVars, compareVars, apiVars>>

AnalyzeRow ==
    /\ mode = "text"
    /\ call = NoCall
    /\ \E r \in Rows, raises \in BOOLEAN :
          call' = [operation |-> "analyze_row",
                   argument |-> r,
                   text |-> Str(combined_text(r)),
                   invoked |-> InvokesClassifier(r),
                   raised |-> InvokesClassifier(r) /\ raises,
                   result |-> analyze_row(r, use_transformers, neutral_threshold, raises)]
    /\ UNCHANGED <<mode, batchVars, compareVars, apiVars>>

(* the call returns to its caller *)
ReturnCall ==
    /\ call # NoCall
    /\ call' = NoCall
    /\ UNCHANGED <<mode, batchVars, compareVars, apiVars>>

InitText ==
    /\ mode = "text"
    /\ call = NoCall
    /\ use_transformers \in BOOLEAN
    /\ neutral_threshold \in Thresholds
    /\ df = <<>> /\ pc = "idle" /\ executor = "none" /\ submitted = 0
    /\ queue = <<>> /\ future = <<>> /\ results = <<>> /\ result_df = <<>>
    /\ ret = NotReturned /\ analyzed = {}
    /\ df1 = NoFrame /\ df2 = NoFrame /\ comparison = <<>>
    /\ processed_data = NoFrame /\ raw_data = NoFrame /\ log = <<>> /\ response = NoResponse

NextText == AnalyzeText \/ AnalyzeRow \/ ReturnCall

SpecText == InitText /\ [][NextText]_vars

(* the analyzer by its own calls, and by the frames analyze_dataframe is given *)
NextClassify == NextText \/ NextBatch

SpecClassify == (InitText \/ InitBatch) /\ [][NextClassify]_vars

----------------------------------------------------------------------------
(* Claims about the classifier *)

Labels == {"positive", "neutral", "negative"}

Called(operation) == call # NoCall /\ call.operation = operation

(* C14: for every text and both strategies analyze_text returns a label in   *)
(* {positive, neutral, negative} with a numeric score, and every            *)
(* sentiment_label that analyze_dataframe attaches is in that set.          *)
C14_LabelInVocabulary ==
    /\ Called("analyze_text") =>
          /\ call.result.label \in Labels
          /\ call.result.score \in Int
    /\ pc = "returned" =>
          \A id \in DOMAIN ret.rows :
              /\ ret.rows[id].label \in Labels
              /\ ret.rows[id].score \in Int

C14_Witness ==
    /\ Called("analyze_text")
    /\ use_transformers
    /\ call.invoked /\ ~call.raised
    /\ call.result.label = "negative"


C17_InclusiveThresholds ==
    (/\ Called("analyze_text") /\ ~use_transformers
     /\ isinstance_str(call.argument) /\ call.argument.s # <<>> /\ ~call.raised) =>
        \A s \in {polarity_scores(call.argument.s)} :
            /\ call.result.score = s
            /\ call.result.label = "positive" <=> s >= neutral_threshold
            /\ call.result.label = "negative" <=> s <= -neutral_threshold
            /\ call.result.label = "neutral" <=> (-neutral_threshold < s /\ s < neutral_threshold)
            /\ Cardinality({l \in Labels : call.result.label = l}) = 1

C17_Witness ==
    /\ Called("analyze_text") /\ ~use_transformers /\ ~call.raised
    /\ isinstance_str(call.argument)
    /\ call.argument.s # <<>>
    /\ polarity_scores(call.argument.s) = -neutral_threshold
    /\ call.result.label = "negative"


TextUnit(r) ==
    IF notna(r.title) /\ notna(r.content) THEN r.title.s \o <<".", " ">> \o r.content.s
    ELSE IF notna(r.title) THEN r.title.s
    ELSE IF notna(r.content) THEN r.content.s
    ELSE <<>>

(* C18 (as stated): the classified text is title + ". " + content when both  *)
(* fields exist and only the one field when only one exists; when neither    *)
(* exists or the combination is blank the row receives the sentinel and the  *)
(* classifier is not invoked.                                                *)
C18_OnlyTheOneField ==
    Called("analyze_row") =>
        IF strip(TextUnit(call.argument)) = <<>>
        THEN ~call.invoked /\ call.result = Sentinel
        ELSE /\ call.invoked
             /\ call.text = Str(TextUnit(call.argument))
             /\ call.result = analyze_text(Str(TextUnit(call.argument)), use_transformers,
                                           neutral_threshold, call.raised)

(* C18 (as the code has it): the separator ". " follows the title whenever   *)
(* the title exists. The classified text is title + ". " + content when both *)
(* exist, title + ". " when only the title exists and the content alone when *)
(* only the content exists. The row receives the sentinel without the        *)
(* classifier being invoked exactly when that text is blank, which needs the *)
(* title to be missing and the content to be missing, empty or blank.        *)
C18_SeparatorFollowsTitle ==
    Called("analyze_row") =>
        \A r \in {call.argument} :
            /\ (notna(r.title) /\ notna(r.content)) =>
                  call.text = Str(r.title.s \o <<".", " ">> \o r.content.s)
            /\ (notna(r.title) /\ ~notna(r.content)) =>
                  call.text = Str(r.title.s \o <<".", " ">>)
            /\ (~notna(r.title) /\ notna(r.content)) => call.text = Str(r.content.s)
            /\ (~notna(r.title) /\ ~notna(r.content)) => call.text = Str(<<>>)
            /\ call.invoked <=> strip(call.text.s) # <<>>
            /\ ~call.invoked <=> (~notna(r.title) /\ (~notna(r.content) \/ strip(r.content.s) = <<>>))
            /\ ~call.invoked => call.result = Sentinel
            /\ call.invoked =>
                  call.result = analyze_text(call.text, use_transformers, neutral_threshold,
                                             call.raised)

C18_Witness ==
    /\ Called("analyze_row")
    /\ notna(call.argument.title) /\ ~notna(call.argument.content)
    /\ call.argument.title.s = <<"love">>
    /\ call.text = Str(<<"love", ".", " ">>)
    /\ call.invoked

----------------------------------------------------------------------------
(* DataAnalyzer.analyze_review_volume and analyze_sentiment_distribution *)

(* bucket widths handed to pd.Grouper: half a day, one day, two days *)
Freqs == {"12h", "D", "2D"}

(* Mutant: the daily buckets run one day past the last date. *)
bins_with_trailing_day(f, freq, first, last) ==
    [i \in 1..(last - first + 2) |->
        [key |-> strftime(first + i - 1), count |-> BucketCount(f, first + i - 1)]]

(* df.groupby(pd.Grouper(key='Date', freq=freq)).size(): the bins from the  *)
(* first to the last date, empty ones included, each with the text its      *)
(* start is formatted to by strftime('%Y-%m-%d'). The records are dated at  *)
(* midnight, so the second half of a day holds none.                        *)
bins(f, freq, first, last) ==
    IF freq = "D"
    THEN [i \in 1..(last - first + 1) |->
             [key |-> strftime(first + i - 1), count |-> BucketCount(f, first + i - 1)]]
    ELSE IF freq = "2D"
    THEN [i \in 1..((last - first) \div 2 + 1) |->
             [key |-> strftime(first + 2 * (i - 1)),
              count |-> BucketCount(f, first + 2 * (i - 1))
                          + BucketCount(f, first + 2 * (i - 1) + 1)]]
    ELSE [i \in 1..(2 * (last - first) + 1) |->
             [key |-> strftime(first + (i - 1) \div 2),
              count |-> IF i % 2 = 1 THEN BucketCount(f, first + (i - 1) \div 2) ELSE 0]]

(* {date.strftime('%Y-%m-%d'): count for date, count in review_counts.items()}: *)
(* a later bin with the same text replaces an earlier one                     *)
review_counts_dict(b) ==
    [k \in {b[i].key : i \in DOMAIN b} |-> b[SetMax({i \in DOMAIN b : b[i].key = k})].count]

(* the result built from the series of bins *)
volume_result(b) ==
    [kind |-> "volume",
     review_counts |-> review_counts_dict(b),
     total_reviews |-> Sum([i \in DOMAIN b |-> b[i].count]),
     buckets |-> Len(b),
     average_daily_reviews |-> Rat(Sum([i \in DOMAIN b |-> b[i].count]), Len(b)),
     peak_count |-> SetMax({b[i].count : i \in DOMAIN b})]

analyze_review_volume(f, freq) ==
    IF empty(f) THEN [kind |-> "empty", review_counts |-> <<>>]
    ELSE IF "Date" \notin f.columns THEN [kind |-> "KeyError"]
    ELSE IF dated(f).rows = <<>> THEN [kind |-> "ValueError"]
    ELSE volume_result(bins(dated(f), freq, SetMin(Days(dated(f))), SetMax(Days(dated(f)))))

(* the caller's frame after analyze_review_volume: line 38 converts its Date *)
(* column in place, line 39 drops rows only from the local copy              *)
volume_after(f) ==
    IF empty(f) \/ "Date" \notin f.columns THEN f ELSE converted(f)

(* df['sentiment_label'].value_counts().to_dict() *)
value_counts(f) ==
    [l \in {f.rows[i].label : i \in DOMAIN f.rows} |-> LabelCount(f, l)]

analyze_sentiment_distribution(f) ==
    IF empty(f) \/ "sentiment_label" \notin f.columns
    THEN [kind |-> "empty", sentiment_distribution |-> <<>>]
    ELSE IF "Rating" \in f.columns /\ len(f) > 1 /\ "sentiment_score" \notin f.columns
    THEN [kind |-> "KeyError"]
    ELSE [kind |-> "distribution",
          sentiment_distribution |-> value_counts(f),
          positive_ratio |-> Rat(LabelCount(f, "positive"), len(f)),
          negative_ratio |-> Rat(LabelCount(f, "negative"), len(f)),
          neutral_ratio |-> Rat(LabelCount(f, "neutral"), len(f))]

(* Record sets handed to the statistics operations: groups of one or two    *)
(* records of a day, the date a text of the file that may denote no day     *)
StatDates == {strftime(1), strftime(3), BadDate}

StatGroups ==
    {Group(day, count, 4, "1.1.0", s.label, s.score) :
        day \in StatDates, count \in 1..2,
        s \in {[label |-> "positive", score |-> 40], [label |-> "neutral", score |-> 0]}}

StatColumns == {Columns, Columns \ {"sentiment_score"}, Columns \ SentimentColumns}

StatFrames ==
    {Frame(rows, cols, "object") : rows \in SeqsUpTo(StatGroups, MaxGroups), cols \in StatColumns}

AnalyzeReviewVolume ==
    /\ mode \in {"stats", "daily"}
    /\ call = NoCall
    /\ \E freq \in Freqs :
          call' = [operation |-> "analyze_review_volume", argument |-> df1, freq |-> freq,
                   result |-> analyze_review_volume(df1, freq)]
    /\ df1' = volume_after(df1)
    /\ UNCHANGED <<mode, batchVars, df2, comparison, apiVars>>

AnalyzeSentimentDistribution ==
    /\ mode = "stats"
    /\ call = NoCall
    /\ call' = [operation |-> "analyze_sentiment_distribution", argument |-> df1,
                result |-> analyze_sentiment_distribution(df1)]
    /\ UNCHANGED <<mode, batchVars, compareVars, apiVars>>

(* the words of the reviews: of the stop-word list of lines 215-222 those   *)
(* that the reviews of the model use                                        *)
english_stopwords == {"the", "very"}

(* str.lower and len of a word *)
str_lower(word) ==
    CASE word = "Great" -> "great"
      [] word = "The" -> "the"
      [] OTHER -> word

str_len(word) ==
    CASE word = " " -> 1
      [] word = "ok" -> 2
      [] word \in {"the", "fun", "The"} -> 3
      [] word \in {"game", "nice", "very"} -> 4
      [] OTHER -> 5

(* Mutant: the least frequent words come first. *)
most_common_ascending(words, n) ==
    LET vocab == Range(words)
        count(w) == Cardinality({i \in DOMAIN words : words[i] = w})
        first(w) == SetMin({i \in DOMAIN words : words[i] = w})
        rank(w) == 1 + Cardinality({v \in vocab :
                        \/ count(v) < count(w)
                        \/ count(v) = count(w) /\ first(v) < first(w)})
    IN  [k \in 1..Min(n, Cardinality(vocab)) |->
            [word |-> CHOOSE w \in vocab : rank(w) = k,
             count |-> count(CHOOSE w \in vocab : rank(w) = k)]]

(* Counter(words).most_common(n): by descending count, equal counts in the  *)
(* order of first occurrence                                                *)
most_common(words, n) ==
    LET vocab == Range(words)
        count(w) == Cardinality({i \in DOMAIN words : words[i] = w})
        first(w) == SetMin({i \in DOMAIN words : words[i] = w})
        rank(w) == 1 + Cardinality({v \in vocab :
                        \/ count(v) > count(w)
                        \/ count(v) = count(w) /\ first(v) < first(w)})
    IN  [k \in 1..Min(n, Cardinality(vocab)) |->
            [word |-> CHOOSE w \in vocab : rank(w) = k,
             count |-> count(CHOOSE w \in vocab : rank(w) = k)]]

(* all_words: per record the title, a space and the content, lower-cased,   *)
(* split at white space, without stop-words and words of 1 or 2 characters  *)
all_words(f) ==
    LET text(g) ==
            (IF "Title" \in f.columns /\ notna(g.title) THEN g.title.s \o <<" ">> ELSE <<>>)
              \o (IF "Content" \in f.columns /\ notna(g.content) THEN g.content.s ELSE <<>>)
        kept(w) == w # " " /\ w \notin english_stopwords /\ str_len(w) > 2
        words(g) == SelectSeq([i \in DOMAIN text(g) |-> str_lower(text(g)[i])], kept)
        times[n \in Nat, i \in DOMAIN f.rows] ==
            IF n = 0 THEN <<>> ELSE times[n - 1, i] \o words(f.rows[i])
        A[i \in 0..Len(f.rows)] ==
            IF i = 0 THEN <<>> ELSE A[i - 1] \o times[f.rows[i].count, i]
    IN  A[Len(f.rows)]

analyze_topics(f, top_n) ==
    IF empty(f) THEN [kind |-> "empty", top_keywords |-> <<>>]
    ELSE [kind |-> "topics", top_keywords |-> most_common(all_words(f), top_n)]

MaxTopN == 3

AnalyzeTopics ==
    /\ mode = "stats"
    /\ call = NoCall
    /\ \E top_n \in 0..MaxTopN :
          call' = [operation |-> "analyze_topics", argument |-> df1, top_n |-> top_n,
                   result |-> analyze_topics(df1, top_n)]
    /\ UNCHANGED <<mode, batchVars, compareVars, apiVars>>

(* Reviews with a title and a content *)
Review(title, content) ==
    [day |-> strftime(1), count |-> 1, rating |-> 4, version |-> "1.1.0",
     label |-> "neutral", score |-> 0, title |-> title, content |-> content]

Reviews ==
    { Review(NaN, Str(<<"great", " ", "game", " ", "great", " ", "nice">>)),
      Review(Str(<<"Great">>), Str(<<"The", " ", "game", " ", "ok">>)),
      Review(NaN, Str(<<"nice", " ", "very", " ", "fun">>)),
      Review(Str(<<"fun">>), NaN) }

InitTopics ==
    /\ mode = "stats"
    /\ InitIdleBatch
    /\ df1 \in {Frame(rows, Columns \cup {"Title", "Content"}, "object") :
                   rows \in SeqsUpTo(Reviews, MaxRows)}
    /\ df2 = NoFrame
    /\ comparison = <<>>
    /\ processed_data = NoFrame /\ raw_data = NoFrame /\ log = <<>>
    /\ response = NoResponse

(* the caller's frame after analyze_sentiment_trend: line 124 converts its  *)
(* Date column in place                                                     *)
trend_after(f) ==
    IF empty(f) \/ "sentiment_label" \notin f.columns \/ "Date" \notin f.columns
    THEN f ELSE converted(f)

AnalyzeSentimentTrend ==
    /\ mode = "stats"
    /\ call = NoCall
    /\ call' = [operation |-> "analyze_sentiment_trend", argument |-> df1,
                result |-> analyze_sentiment_trend(df1)]
    /\ df1' = trend_after(df1)
    /\ UNCHANGED <<mode, batchVars, df2, comparison, apiVars>>

(* Classified record sets whose daily means differ by hundredths, one day   *)
(* or ten days apart                                                        *)
TrendGroups ==
    {Group(strftime(day), 1, 4, "1.1.0", "neutral", score) :
        day \in {1, 2, 11}, score \in {0, 1, 2, 11}}

InitTrend ==
    /\ mode = "stats"
    /\ InitIdleBatch
    /\ df1 \in {Frame(rows, Columns, "object") : rows \in SeqsUpTo(TrendGroups, MaxGroups)}
    /\ df2 = NoFrame
    /\ comparison = <<>>
    /\ processed_data = NoFrame /\ raw_data = NoFrame /\ log = <<>>
    /\ response = NoResponse

InitStats ==
    /\ mode = "stats"
    /\ InitIdleBatch
    /\ \/ df1 \in StatFrames
       \/ df1 \in {to_datetime(f) : f \in StatFrames}
    /\ df2 = NoFrame
    /\ comparison = <<>>
    /\ processed_data = NoFrame /\ raw_data = NoFrame /\ log = <<>>
    /\ response = NoResponse

NextStats ==
    \/ AnalyzeReviewVolume
    \/ AnalyzeSentimentDistribution
    \/ AnalyzeSentimentTrend
    \/ AnalyzeTopics
    \/ ReturnCall

SpecStats == (InitStats \/ InitTrend \/ InitTopics) /\ [][NextStats]_vars

----------------------------------------------------------------------------
(* Claims about the statistics operations *)

(* the sum of the per-bucket counts a volume result reports *)
ReportedSum(counts) ==
    LET keys == DOMAIN counts
        S[K \in SUBSET keys] ==
            IF K = {} THEN 0
            ELSE LET k == CHOOSE x \in K : TRUE IN counts[k] + S[K \ {k}]
    IN  S[keys]

(* C19: for every non-empty record set and every bucket width, the sum of    *)
(* the per-bucket counts of analyze_review_volume equals the reported total, *)
(* which equals the number of records passed in.                             *)
C19_VolumeSum ==
    (Called("analyze_review_volume") /\ ~empty(call.argument)) =>
        /\ call.result.kind = "volume"
        /\ ReportedSum(call.result.review_counts) = call.result.total_reviews
        /\ call.result.total_reviews = len(call.argument)


(* the three ratios of a distribution result, when it reports them *)
ReportsRatios(result) ==
    {"positive_ratio", "negative_ratio", "neutral_ratio"} \subseteq DOMAIN result

(* C20: whenever the record set has at least one record the three ratios of  *)
(* analyze_sentiment_distribution sum to 1 and each equals its label's count *)
(* divided by the total; when the record set is empty all three ratios are   *)
(* reported as 0.                                                            *)
C20_RatiosSumToOne ==
    (Called("analyze_sentiment_distribution") /\ "sentiment_label" \in call.argument.columns
        /\ call.result.kind # "KeyError") =>
        \A r \in {call.result}, n \in {len(call.argument)} :
            /\ ReportsRatios(r)
            /\ n > 0 =>
                  /\ r.positive_ratio.n * r.negative_ratio.d * r.neutral_ratio.d
                       + r.negative_ratio.n * r.positive_ratio.d * r.neutral_ratio.d
                       + r.neutral_ratio.n * r.positive_ratio.d * r.negative_ratio.d
                     = r.positive_ratio.d * r.negative_ratio.d * r.neutral_ratio.d
                  /\ r.positive_ratio.n * n = LabelCount(call.argument, "positive") * r.positive_ratio.d
                  /\ r.negative_ratio.n * n = LabelCount(call.argument, "negative") * r.negative_ratio.d
                  /\ r.neutral_ratio.n * n = LabelCount(call.argument, "neutral") * r.neutral_ratio.d
            /\ n = 0 =>
                  /\ r.positive_ratio.n = 0
                  /\ r.negative_ratio.n = 0
                  /\ r.neutral_ratio.n = 0


(* the daily buckets of a record set that have a mean score *)
ValidBuckets(f) == Days(dated(f))

TokensOf(f) ==
    LET cell(c) == IF notna(c) THEN SelectSeq(c.s, LAMBDA w : w # " ") ELSE <<>>
        T[i \in 0..Len(f.rows)] ==
            IF i = 0 THEN <<>>
            ELSE T[i - 1] \o cell(f.rows[i].title) \o cell(f.rows[i].content)
    IN  [i \in DOMAIN T[Len(f.rows)] |-> str_lower(T[Len(f.rows)][i])]

Occurrences(tokens, w) == Cardinality({i \in DOMAIN tokens : tokens[i] = w})

FirstSeen(tokens, w) == SetMin({i \in DOMAIN tokens : tokens[i] = w})

Eligible(tokens) == {w \in Range(tokens) : w \notin english_stopwords /\ str_len(w) > 2}

(* C22: analyze_topics returns at most top_n keywords, by descending         *)
(* frequency over the whole record set with ties in first-encountered order, *)
(* each with its exact occurrence count, and never a token of length <= 2   *)
(* or a stop-word; the tokens great, game, great, nice with top_n = 2 give   *)
(* great: 2 then game: 1.                                                   *)
C22_TopKeywords ==
    (Called("analyze_topics") /\ "Content" \in call.argument.columns /\ ~empty(call.argument)) =>
        \A top \in {call.result.top_keywords}, tokens \in {TokensOf(call.argument)} :
            /\ Len(top) = Min(call.top_n, Cardinality(Eligible(tokens)))
            /\ \A k \in DOMAIN top :
                  /\ top[k].word \in Eligible(tokens)
                  /\ top[k].count = Occurrences(tokens, top[k].word)
                  /\ \A j \in 1..(k - 1) :
                        \/ top[j].count > top[k].count
                        \/ /\ top[j].count = top[k].count
                           /\ FirstSeen(tokens, top[j].word) < FirstSeen(tokens, top[k].word)
                  /\ \A w \in Eligible(tokens) \ {top[j].word : j \in DOMAIN top} :
                        \/ Occurrences(tokens, w) < top[k].count
                        \/ /\ Occurrences(tokens, w) = top[k].count
                           /\ FirstSeen(tokens, top[k].word) < FirstSeen(tokens, w)
            /\ (tokens = <<"great", "game", "great", "nice">> /\ call.top_n = 2) =>
                  top = <<[word |-> "great", count |-> 2], [word |-> "game", count |-> 1]>>

C22_Witness ==
    /\ Called("analyze_topics")
    /\ "Content" \in call.argument.columns
    /\ TokensOf(call.argument) = <<"great", "game", "great", "nice">>
    /\ call.top_n = 2
    /\ call.result.top_keywords = <<[word |-> "great", count |-> 2], [word |-> "game", count |-> 1]>>

----------------------------------------------------------------------------
(* Claims about the version comparison and the rating delta *)

(* the versions that no other version of the frame outnumbers *)
TopVersions(f) ==
    {v \in {f.rows[i].version : i \in 1..Len(f.rows)} :
        \A j \in 1..Len(f.rows) : VersionCount(f, f.rows[j].version) <= VersionCount(f, v)}

(* the position at which a version first appears in the frame *)
FirstRowOf(f, v) == SetMin({i \in 1..Len(f.rows) : f.rows[i].version = v})

MostFrequentVersion(f) ==
    CHOOSE v \in TopVersions(f) :
        \A w \in TopVersions(f) : FirstRowOf(f, v) <= FirstRowOf(f, w)

(* C23: in every full result each period's main_version is the most         *)
(* frequent version of the period, the first in value-count order among     *)
(* equally frequent ones; version_changed is true exactly when the two main *)
(* versions differ; and when it is true the summary holds a version         *)
(* statement naming period 1's version first and period 2's second, so a    *)
(* change from 1.1.0 to 1.1.1 is reported as 1.1.0 then 1.1.1.              *)
C23_VersionComparison ==
    FullResult =>
        \A m \in {Latest.metrics}, sm \in {Latest.summary},
           v1 \in {MostFrequentVersion(df1)}, v2 \in {MostFrequentVersion(df2)} :
            /\ m.main_version1 = v1
            /\ m.main_version2 = v2
            /\ m.version_changed <=> v1 # v2
            /\ m.version_changed =>
                  \E k \in 1..Len(sm) : sm[k] = VersionBullet("version_updated", v1, v2)
            /\ (v1 = "1.1.0" /\ v2 = "1.1.1") =>
                  /\ m.version_changed
                  /\ \E k \in 1..Len(sm) :
                        sm[k].rule = "version_updated" /\ sm[k].from = "1.1.0" /\ sm[k].to = "1.1.1"

(* period 1 has two equally frequent versions and is dominated by 1.1.0,    *)
(* period 2 by 1.1.1, and the version statement is in the summary           *)
C23_Witness ==
    /\ FullResult
    /\ Cardinality(TopVersions(df1)) = 2
    /\ Latest.metrics.main_version1 = "1.1.0"
    /\ Latest.metrics.main_version2 = "1.1.1"
    /\ Latest.metrics.version_changed
    /\ Has(Latest.summary, "version_updated")

(* the rating statements of a summary *)
HasRatingBullet(sm) == Has(sm, "rating_improved") \/ Has(sm, "rating_declined")

(* the reported rating delta of the latest result, in hundredths *)
ReportedRatingDelta == Latest.rating.change.average_rating

(* C24: in every full result the reported rating delta is mean2 - mean1     *)
(* rounded to 2 decimals, and a rating statement is in the summary exactly  *)
(* when the magnitude of that reported delta is above 0.5; a result that    *)
(* reports exactly 0.5 or -0.5 carries no rating statement.                 *)
C24_RatingDeltaRule ==
    FullResult =>
        \A n1 \in {len(df1)}, n2 \in {len(df2)},
           r1 \in {RatingSum(df1)}, r2 \in {RatingSum(df2)},
           delta \in {ReportedRatingDelta}, sm \in {Latest.summary} :
            /\ 2 * (delta * n1 * n2 - 100 * (r2 * n1 - r1 * n2)) \in -(n1 * n2)..(n1 * n2)
            /\ Has(sm, "rating_improved") <=> delta > RatingChangeSummary
            /\ Has(sm, "rating_declined") <=> delta < -RatingChangeSummary
            /\ delta \in {RatingChangeSummary, -RatingChangeSummary} => ~HasRatingBullet(sm)

(* a result that reports a rating delta of exactly 0.5 and still carries    *)
(* the statement that the rating clearly improved                           *)
C24_ReportedHalfWithBullet ==
    /\ FullResult
    /\ ReportedRatingDelta = RatingChangeSummary
    /\ Has(Latest.summary, "rating_improved")

----------------------------------------------------------------------------
(* DataProcessor: load_data, filter_by_date_range, get_data_stats *)

MaxOps == 3

(* self.processed_data = None *)
NotLoaded == [rows |-> <<>>, columns |-> {}, date_dtype |-> "None"]

(* one line of the CSV file: its Date text, its Rating and its empty cells *)
CsvRow(day, rating, missing) ==
    [day |-> day, count |-> 1, rating |-> rating, version |-> "1.1.0", missing |-> missing]

RequiredColumns == {"Country", "Rating", "Date", "Content"}

(* _clean_data: drop the rows with an empty required cell, a rating outside *)
(* 1..5 or a Date that does not parse, and convert the Date column          *)
clean_data(f) ==
    LET kept(row) == /\ row.missing \cap RequiredColumns = {}
                     /\ 1 <= row.rating /\ row.rating <= 5
                     /\ parses(row.day)
    IN  to_datetime([f EXCEPT !.rows = SelectSeq(@, kept)])

(* the exception a load_data() of the file raises, "None" when it returns: *)
(* read_csv fails, or dropna(subset=...) misses a required column          *)
load_raises(file) ==
    IF load_data(file) # "None" THEN load_data(file)
    ELSE IF ~(RequiredColumns \subseteq file.columns) THEN "KeyError"
    ELSE "None"

(* self.raw_data and self.processed_data after load_data() *)
raw_data_after(raw, file) == IF load_data(file) # "None" THEN raw ELSE file

processed_data_after(data, file) ==
    IF load_raises(file) # "None" THEN data ELSE clean_data(file)

NoStats == [total_reviews |-> 0, rating_sum |-> 0, min_date |-> "None", max_date |-> "None"]

(* a call of the processor: its arguments, what it raised or returned, and *)
(* <<raw_data, processed_data>> before and after it                         *)
Entry(operation, start, end, explicit, raised, result, stats, before, after) ==
    [operation |-> operation, start |-> start, end |-> end, explicit |-> explicit,
     raised |-> raised, result |-> result, stats |-> stats,
     before |-> before, after |-> after]

(* Mutant: filtering without the check that data was loaded. *)
filter_raises_unchecked(data, start, end) ==
    IF ~parses(start) \/ ~parses(end) THEN "ValueError" ELSE "None"

(* what DataProcessor.filter_by_date_range raises: ValueError when          *)
(* processed_data is None, and pd.to_datetime's ValueError for a text that  *)
(* is no date                                                               *)
filter_raises(data, start, end) ==
    IF data = NotLoaded THEN "ValueError"
    ELSE IF ~parses(start) \/ ~parses(end) THEN "ValueError"
    ELSE "None"

(* what it returns *)
filter_returns(data, start, end) ==
    IF filter_raises(data, start, end) # "None" THEN NoFrame
    ELSE filter_by_date_range(data, parse_date(start), parse_date(end))

(* get_data_stats(df): df=None stands for the loaded data *)
stats_raises(data, explicit) ==
    IF ~explicit /\ data = NotLoaded THEN "ValueError" ELSE "None"

stats_of(f) ==
    [total_reviews |-> len(f),
     rating_sum |-> RatingSum(f),
     min_date |-> IF empty(f) THEN "None" ELSE strftime(SetMin(Days(f))),
     max_date |-> IF empty(f) THEN "None" ELSE strftime(SetMax(Days(f)))]

(* the lines of the review file: valid ones, a rating out of range, a Date  *)
(* that is no date, an empty Content cell, an empty Title cell              *)
FileRows ==
    << CsvRow(strftime(1), 3, {}),
       CsvRow(strftime(2), 6, {}),
       CsvRow(strftime(2), 4, {"Title"}),
       CsvRow(BadDate, 3, {}),
       CsvRow(strftime(3), 5, {}),
       CsvRow(strftime(1), 2, {"Content"}) >>

(* review files: unreadable, malformed, without a Content column, and the   *)
(* first lines of the file above                                            *)
Files ==
    {LoadFails, LoadRejects, Frame(FileRows, CsvColumns \ {"Content"}, "object")}
      \cup {Frame(SubSeq(FileRows, 1, k), CsvColumns, "object") : k \in 0..Len(FileRows)}

FilterDates == {strftime(1), strftime(2), BadDate}

(* a frame handed to get_data_stats explicitly *)
ExplicitFrame == clean_data(Frame(FileRows, CsvColumns, "object"))

ProcessorState == <<raw_data, processed_data>>

LoadData ==
    /\ mode = "processor"
    /\ Len(log) < MaxOps
    /\ \E file \in Files :
          /\ raw_data' = raw_data_after(raw_data, file)
          /\ processed_data' = processed_data_after(processed_data, file)
          /\ log' = Append(log, Entry("load_data", "", "", FALSE, load_raises(file),
                                      IF load_raises(file) = "None" THEN clean_data(file) ELSE NoFrame,
                                      NoStats, ProcessorState,
                                      <<raw_data_after(raw_data, file),
                                        processed_data_after(processed_data, file)>>))
    /\ UNCHANGED <<mode, call, batchVars, compareVars, response>>

FilterByDateRange ==
    /\ mode = "processor"
    /\ Len(log) < MaxOps
    /\ \E start \in FilterDates, end \in FilterDates :
          log' = Append(log, Entry("filter_by_date_range", start, end, FALSE,
                                   filter_raises(processed_data, start, end),
                                   filter_returns(processed_data, start, end),
                                   NoStats, ProcessorState, ProcessorState))
    /\ UNCHANGED <<mode, call, batchVars, compareVars, processed_data, response, raw_data>>

GetDataStats ==
    /\ mode = "processor"
    /\ Len(log) < MaxOps
    /\ \E explicit \in BOOLEAN :
          log' = Append(log, Entry("get_data_stats", "", "", explicit,
                                   stats_raises(processed_data, explicit), NoFrame,
                                   IF stats_raises(processed_data, explicit) # "None" THEN NoStats
                                   ELSE IF explicit THEN stats_of(ExplicitFrame)
                                   ELSE stats_of(processed_data),
                                   ProcessorState, ProcessorState))
    /\ UNCHANGED <<mode, call, batchVars, compareVars, processed_data, response, raw_data>>

(* a processor just constructed: raw_data = None, processed_data = None *)
InitProcessor ==
    /\ mode = "processor"
    /\ InitIdleBatch
    /\ df1 = NoFrame /\ df2 = NoFrame /\ comparison = <<>>
    /\ raw_data = NotLoaded
    /\ processed_data = NotLoaded
    /\ response = NoResponse
    /\ log = <<>>

NextProcessor ==
    \/ LoadData
    \/ FilterByDateRange
    \/ GetDataStats

SpecProcessor == InitProcessor /\ [][NextProcessor]_vars

(* the successful loads among the first i - 1 calls *)
LoadsBefore(i) ==
    {j \in 1..(i - 1) : log[j].operation = "load_data" /\ log[j].raised = "None"}

(* what the latest successful load before call i returned *)
LoadedBefore(i) == log[SetMax(LoadsBefore(i))].result

(* the positions of the loaded rows whose date lies within start..end *)
InRange(loaded, start, end) ==
    {k \in 1..Len(loaded.rows) :
        parse_date(start) <= loaded.rows[k].day /\ loaded.rows[k].day <= parse_date(end)}

(* C25: in any sequence of calls, a filter_by_date_range, or a              *)
(* get_data_stats without a record set, made before any successful          *)
(* load_data raises ValueError and leaves the processor's state unchanged;  *)
(* after a successful load_data, filter_by_date_range with two dates        *)
(* returns exactly the loaded records whose date d satisfies                *)
(* start <= d <= end, in their order, and leaves the loaded data unchanged. *)
C25_LoadBeforeUse ==
    \A i \in 1..Len(log) :
        LET e == log[i]
        IN  /\ ( /\ \/ e.operation = "filter_by_date_range"
                    \/ e.operation = "get_data_stats" /\ ~e.explicit
                 /\ LoadsBefore(i) = {} )
                => e.raised = "ValueError" /\ e.after = e.before
            /\ ( /\ e.operation = "filter_by_date_range"
                 /\ LoadsBefore(i) # {}
                 /\ parses(e.start) /\ parses(e.end) )
                => \A loaded \in {LoadedBefore(i)} :
                      /\ e.raised = "None"
                      /\ e.result.columns = loaded.columns
                      /\ Len(e.result.rows) = Cardinality(InRange(loaded, e.start, e.end))
                      /\ \A k \in 1..Len(e.result.rows) :
                            \E p \in InRange(loaded, e.start, e.end) :
                                /\ e.result.rows[k] = loaded.rows[p]
                                /\ Cardinality({q \in InRange(loaded, e.start, e.end) : q <= p}) = k
                      /\ e.after = e.before
                      /\ e.after[2] = loaded

(* a filter before any load raises ValueError; then a file is loaded and    *)
(* cleaned; then a filter whose end date is the date of a loaded record     *)
(* returns some but not all of the loaded records, that record included     *)
C25_Witness ==
    /\ Len(log) = 3
    /\ log[1].operation = "filter_by_date_range" /\ log[1].raised = "ValueError"
    /\ log[2].operation = "load_data" /\ log[2].raised = "None"
    /\ Len(log[2].result.rows) = 3
    /\ log[3].operation = "filter_by_date_range" /\ log[3].raised = "None"
    /\ Len(log[3].result.rows) = 2
    /\ \E k \in 1..2 : strftime(log[3].result.rows[k].day) = log[3].end

----------------------------------------------------------------------------
(* Claim about the order of the request pipeline *)

(* the operations behind the gate: classification, statistics, comparison,  *)
(* report generation                                                        *)
DeepOperations ==
    {"analyze_dataframe", "get_data_stats", "analyze_review_volume",
     "analyze_sentiment_distribution", "analyze_sentiment_trend", "analyze_topics",
     "compare_time_periods", "generate_json_report"}

IsComparison == response # NoResponse /\ "period1_start" \in DOMAIN response.request

IsPeriodAnalysis ==
    response # NoResponse /\ "operation" \in DOMAIN response
      /\ response.operation = "period-analysis"

(* the number of loaded records whose date lies within start..end *)
RecordsWithin(start, end) ==
    Sum([i \in DOMAIN processed_data.rows |->
            IF parse_date(start) <= processed_data.rows[i].day
                 /\ processed_data.rows[i].day <= parse_date(end)
            THEN processed_data.rows[i].count ELSE 0])

FiltersBefore(i) == Cardinality({j \in 1..(i - 1) : log[j] = "filter_by_date_range"})

(* the request was filtered: the file loaded and every date is a date *)
ComparisonFiltered ==
    /\ IsComparison
    /\ load_data(processed_data) = "None"
    /\ \A text \in {response.request.period1_start, response.request.period1_end,
                    response.request.period2_start, response.request.period2_end} : parses(text)

PeriodFiltered ==
    /\ IsPeriodAnalysis
    /\ load_data(processed_data) = "None"
    /\ parses(response.request.start_date) /\ parses(response.request.end_date)

----------------------------------------------------------------------------
(* Claim about the trend-direction transition table *)

TrendRules ==
    {"trend_recovering", "trend_regressing", "trend_stable_to_up", "trend_stable_to_down",
     "trend_still_up", "trend_still_down"}

(* the trend insights of the latest result *)
TrendInsights ==
    {k \in 1..Len(Latest.detailed_insights) : Latest.detailed_insights[k].rule \in TrendRules}

(* the one trend insight of the latest result is `rule` *)
OnlyTrendInsight(rule) ==
    /\ Cardinality(TrendInsights) = 1
    /\ \A k \in TrendInsights : Latest.detailed_insights[k].rule = rule

(* the trend directions of the two periods of the latest comparison *)
Directions ==
    <<analyze_sentiment_trend(df1).trend_direction, analyze_sentiment_trend(df2).trend_direction>>

(* C27: a full result carries exactly one trend insight for the direction   *)
(* pairs (down, up): recovering, (up, down): regression warning,            *)
(* (stable, up), (stable, down), (up, up) and (down, down); none for        *)
(* (up, stable), (down, stable) and (stable, stable); and never more than   *)
(* one.                                                                     *)
C27_TrendTransitionTable ==
    FullResult =>
        \A d \in {Directions} :
            /\ d = <<"down", "up">> => OnlyTrendInsight("trend_recovering")
            /\ d = <<"up", "down">> => OnlyTrendInsight("trend_regressing")
            /\ d = <<"stable", "up">> => OnlyTrendInsight("trend_stable_to_up")
            /\ d = <<"stable", "down">> => OnlyTrendInsight("trend_stable_to_down")
            /\ d = <<"up", "up">> => OnlyTrendInsight("trend_still_up")
            /\ d = <<"down", "down">> => OnlyTrendInsight("trend_still_down")
            /\ d \in {<<"up", "stable">>, <<"down", "stable">>, <<"stable", "stable">>}
                  => TrendInsights = {}
            /\ Cardinality(TrendInsights) <= 1

(* sentiment fell during period 1 and rose during period 2: the result      *)
(* carries the recovering insight                                           *)
C27_Witness ==
    /\ FullResult
    /\ Directions = <<"down", "up">>
    /\ OnlyTrendInsight("trend_recovering")

----------------------------------------------------------------------------
(* Claim about the frame effect of analyze_dataframe *)

(* the returned frame holds the records of df, each with the cells it had   *)
(* in df                                                                    *)
SameFields ==
    /\ DOMAIN ret.fields = DOMAIN df
    /\ \A p \in DOMAIN df :
          /\ DOMAIN ret.fields[p] = DOMAIN df[p]
          /\ \A column \in DOMAIN df[p] : ret.fields[p][column] = df[p][column]

(* C28: analyze_dataframe never modifies the frame it was given, and every  *)
(* pre-existing field of every record of the returned frame has the value   *)
(* it has in the input; the only difference is the two added fields,        *)
(* sentiment_label and sentiment_score, attached to each record.            *)
C28_SentimentIsAdditive ==
    /\ [][df' = df]_vars
    /\ [](ret.kind = "returned" =>
            /\ SameFields
            /\ ~ret.same =>
                  /\ DOMAIN ret.rows = Ids(df)
                  /\ \A id \in Ids(df) : DOMAIN ret.rows[id] = {"label", "score"})

(* a frame with a record without title was classified and returned, its     *)
(* records carrying their own cells and a sentiment                         *)
C28_Witness ==
    /\ ret.kind = "returned"
    /\ ~ret.same
    /\ \E p \in DOMAIN df : ~notna(df[p].title) /\ ret.fields[p] = df[p]
    /\ \A id \in Ids(df) : ret.rows[id].label \in Labels

----------------------------------------------------------------------------
(* Claim about the purity of the statistics operations *)

(* f and g hold the same records in the same columns, Date column included *)
SameFrame(f, g) ==
    /\ f.date_dtype = g.date_dtype
    /\ f.columns = g.columns
    /\ f.rows = g.rows

(* the call in progress returned what the operation yields for its argument *)
ResultOfArgument ==
    /\ Called("analyze_review_volume") =>
          call.result = analyze_review_volume(call.argument, call.freq)
    /\ Called("analyze_sentiment_distribution") =>
          call.result = analyze_sentiment_distribution(call.argument)
    /\ Called("analyze_sentiment_trend") =>
          call.result = analyze_sentiment_trend(call.argument)
    /\ Called("analyze_topics") =>
          call.result = analyze_topics(call.argument, call.top_n)

(* C29: each of the four statistics operations leaves the record set passed *)
(* to it unchanged, its Date column included, and returns the result that   *)
(* its input determines, whatever calls were made before it.                *)
C29_StatisticsArePure ==
    /\ [][call' # NoCall => SameFrame(df1', df1)]_vars
    /\ [](call # NoCall => ResultOfArgument)

(* the results alone: a record set whose Date column an earlier call        *)
(* converted yields the results that the record set yielded before          *)
C29_ResultsUnaffected ==
    (df1.date_dtype = "object" /\ "Date" \in df1.columns /\ ~empty(df1)) =>
        \A after \in {converted(df1)} :
            /\ \A freq \in Freqs :
                  analyze_review_volume(after, freq) = analyze_review_volume(df1, freq)
            /\ analyze_sentiment_distribution(after) = analyze_sentiment_distribution(df1)
            /\ analyze_sentiment_trend(after) = analyze_sentiment_trend(df1)

(* a call of analyze_review_volume on a record set whose Date column holds  *)
(* texts: after the call the caller's column holds timestamps               *)
C29_DateColumnConverted ==
    /\ Called("analyze_review_volume")
    /\ call.argument.date_dtype = "object"
    /\ df1.date_dtype = "datetime64"

----------------------------------------------------------------------------
(* The daily averages of analyze_review_volume and compare_time_periods on  *)
(* the same period                                                          *)

(* the records of a day of a period: days 1, 2 and 4, so that a period may  *)
(* span days without a record                                               *)
DailyGroups ==
    {Group(strftime(day), count, 4, "1.1.0", "neutral", 0) : day \in {1, 2, 4}, count \in {1, 3}}

OtherGroups == {Group(strftime(day), 2, 4, "1.1.0", "neutral", 0) : day \in {1, 3}}

InitDaily ==
    /\ mode = "daily"
    /\ InitIdleBatch
    /\ df1 \in {Frame(rows, Columns, "object") : rows \in SeqsUpTo(DailyGroups, MaxGroups)}
    /\ df2 \in {Frame(rows, Columns, "object") : rows \in SeqsUpTo(OtherGroups, MaxGroups)}
    /\ comparison = <<>>
    /\ processed_data = NoFrame /\ raw_data = NoFrame /\ log = <<>>
    /\ response = NoResponse

NextDaily ==
    \/ AnalyzeReviewVolume
    \/ ReturnCall
    \/ CompareTimePeriods

SpecDaily == InitDaily /\ [][NextDaily]_vars

(* period 1 was compared, and its daily review volume is at hand *)
DailyVolumeAndComparison ==
    /\ FullResult
    /\ Called("analyze_review_volume")
    /\ call.freq = "D"
    /\ call.result.kind = "volume"

(* C30: for every non-empty period of date-only records the number of daily *)
(* buckets of analyze_review_volume, days without a record between the      *)
(* first and the last date included, equals the day count (last date -      *)
(* first date + 1) of compare_time_periods; the period's daily_average in   *)
(* the comparison equals analyze_review_volume's average_daily_reviews      *)
(* rounded to 2 decimals; and the day count is at least 1.                  *)
C30_DailyAveragesAgree ==
    /\ FullResult => Latest.metrics.days1 >= 1 /\ Latest.metrics.days2 >= 1
    /\ DailyVolumeAndComparison =>
          \A volume \in {call.result}, days \in {Latest.metrics.days1} :
              /\ days = SetMax(Days(df1)) - SetMin(Days(df1)) + 1
              /\ volume.buckets = days
              /\ volume.average_daily_reviews.n = len(df1)
              /\ volume.average_daily_reviews.d = days
              /\ Latest.review_volume.daily_average1 = round(volume.average_daily_reviews, 2)

(* a period of four records on day 1 and day 4: four daily buckets, two of  *)
(* them without a record, and a daily average of 1                          *)
C30_Witness ==
    /\ DailyVolumeAndComparison
    /\ call.result.buckets = 4
    /\ call.result.total_reviews = 4
    /\ Cardinality(Days(df1)) = 2
    /\ Latest.review_volume.daily_average1 = 100

====
